---------------------------- MODULE Spec2Model ----------------------------
(***************************************************************************)
(* Model of the Makefile generator of STM32 for VSCode (CreateMakefile.ts), *)
(* of the file classifier sortFiles, and of the extraction rules of         *)
(* getCubeMakefileInfo that read the generated text back.                   *)
(*                                                                          *)
(* Strings.  A string is a sequence of characters, each character a         *)
(* one-character TLA+ string: "-lab" is <<"-", "l", "a", "b">>.  Static     *)
(* text of a template is cut into words: a maximal run of non-blank         *)
(* characters of the template is kept as one element ("C_SOURCES", "+=",    *)
(* "$(CC)"), every blank, tab and newline is an element of its own, and the *)
(* static text of a comment line is kept whole.  Strings that come from the *)
(* caller (paths, symbols, flags, prefixes) are always character by         *)
(* character, so sorting, prefix search, trimming and tokenising work on    *)
(* characters as the code does.                                             *)
(***************************************************************************)
EXTENDS Integers, Sequences, FiniteSets, TLC

VARIABLES
  fn,          \* the function whose call the caller has made ("none" before)
  pc,          \* the caller's position: "call" before the call, then the step reached
  arr,         \* the array handed to a list function (the caller's object, visible after the call)
  prefix,      \* the prefix argument
  input,       \* the token handed to createPrefixWhenNoneExists
  makeInfo,    \* the MakeInfo handed to customMakefileRules / createMakefile
  list,        \* the flat file list handed to sortFiles
  output,      \* the string a call returned
  result,      \* the list a call returned
  buildFiles,  \* the BuildFiles sortFiles returned
  extracted,   \* the ExtractedMakefileInfo read back from output
  \* promises of the asynchronous functions
  promise,     \* state of the promise each asynchronous function returned
  rejection,   \* the error a rejected promise holds
  \* openOCDConfig.ts and what it talks to
  workspaceUri,  \* Helpers.getWorkspaceUri() gives a workspace
  openocdCfg,    \* the file openocd.cfg of the workspace
  programmer,    \* the programmer argument, then the programmer chosen
  config,        \* the OpenOCDConfigurationInterface argument
  readFile,      \* the promise of read(): vscode.workspace.fs.readFile
  writeFile,     \* the promise of write(): Helpers.writeFileInWorkspace
  reads,         \* the readFile requests issued
  writes,        \* the texts handed to writeFileInWorkspace
  quickPick,     \* vscode.window.showQuickPick
  messages,      \* the messages shown in the window
  \* scanForFiles and what it talks to
  workspaceFolder,     \* vscode.workspace.workspaceFolders?.[0] is defined
  includedFilesGlob,   \* the argument of scanForFiles
  filePromises,        \* the promises of globSearch, one for each entry
  statChecks,          \* the fs.stat request of each entry
  nonGlobFiles,        \* the array the stat callbacks push to
  allFiles             \* what scanForFiles returned

asyncVars == <<promise, rejection>>
ocdVars ==
  <<workspaceUri, openocdCfg, programmer, config, readFile, writeFile, reads, writes,
    quickPick, messages>>
scanVars == <<workspaceFolder, includedFilesGlob, filePromises, statChecks, nonGlobFiles, allFiles>>
unitVars == <<fn, pc, arr, prefix, input, makeInfo, list, output, result, buildFiles, extracted>>
vars == <<unitVars, asyncVars, ocdVars, scanVars>>

(***************************************************************************)
(* Bounds of the explored inputs.                                           *)
(***************************************************************************)
MaxLen == 3        \* longest array handed to a list function
MaxTokLen == 3     \* longest token handed to createPrefixWhenNoneExists
MaxGroupLen == 2   \* longest list field of a MakeInfo handed to createMakefile
MaxGlobs == 2      \* longest list of entries handed to scanForFiles

(***************************************************************************)
(* JavaScript values.                                                       *)
(***************************************************************************)
\* The value of an omitted string (undefined): not a sequence of characters.
undefined == <<"undefined">>

\* '' (also what an omitted optional prefix parameter behaves like: both are falsy)
NoPrefix == <<>>

\* UTF-16 code unit of each character the inputs use; the default
\* Array.prototype.sort and the relational operators on strings compare these.
CharCode ==
  (" " :> 32) @@ ("+" :> 43) @@ ("-" :> 45) @@ ("." :> 46) @@ ("/" :> 47) @@
  ("7" :> 55) @@ ("=" :> 61) @@
  ("A" :> 65) @@ ("B" :> 66) @@ ("C" :> 67) @@ ("D" :> 68) @@ ("H" :> 72) @@
  ("I" :> 73) @@ ("L" :> 76) @@ ("O" :> 79) @@ ("P" :> 80) @@ ("S" :> 83) @@
  ("W" :> 87) @@ ("X" :> 88) @@ ("\\" :> 92) @@
  ("a" :> 97) @@ ("b" :> 98) @@ ("c" :> 99) @@ ("d" :> 100) @@ ("e" :> 101) @@
  ("f" :> 102) @@ ("g" :> 103) @@ ("h" :> 104) @@ ("i" :> 105) @@ ("l" :> 108) @@
  ("m" :> 109) @@ ("o" :> 111) @@ ("p" :> 112) @@ ("r" :> 114) @@ ("s" :> 115) @@
  ("t" :> 116) @@ ("u" :> 117) @@ ("x" :> 120)

Min(a, b) == IF a <= b THEN a ELSE b

\* a < b on strings: the first differing code unit decides, a proper prefix is smaller
StrLess(a, b) ==
  \E k \in 1..(Min(Len(a), Len(b)) + 1) :
    /\ \A j \in 1..(k - 1) : a[j] = b[j]
    /\ \/ k > Len(a) /\ k <= Len(b)
       \/ k <= Len(a) /\ k <= Len(b) /\ CharCode[a[k]] < CharCode[b[k]]

\* concatenation of a sequence of strings (halving keeps the evaluation shallow)
RECURSIVE ConcatRange(_, _, _)
ConcatRange(parts, lo, hi) ==
  IF lo > hi THEN <<>>
  ELSE IF lo = hi THEN parts[lo]
  ELSE LET mid == (lo + hi) \div 2
       IN  ConcatRange(parts, lo, mid) \o ConcatRange(parts, mid + 1, hi)

Concat(parts) == ConcatRange(parts, 1, Len(parts))

\* String.prototype.indexOf(p) >= 0
Includes(s, p) ==
  \E i \in 0..(Len(s) - Len(p)) : SubSeq(s, i + 1, i + Len(p)) = p

\* String.prototype.startsWith
StartsWith(s, p) == Len(p) <= Len(s) /\ SubSeq(s, 1, Len(p)) = p

(***************************************************************************)
(* lodash uniq and Array.prototype.sort.                                    *)
(***************************************************************************)
RECURSIVE uniqFrom(_, _)
uniqFrom(a, i) ==
  IF i > Len(a) THEN <<>>
  ELSE IF \E j \in 1..(i - 1) : a[j] = a[i] THEN uniqFrom(a, i + 1)
  ELSE <<a[i]>> \o uniqFrom(a, i + 1)

\* _.uniq(array): a NEW array holding the first occurrence of every value
uniq(a) == uniqFrom(a, 1)

RECURSIVE insertSorted(_, _)
insertSorted(x, s) ==
  IF s = <<>> THEN <<x>>
  ELSE IF StrLess(x, Head(s)) THEN <<x>> \o s
  ELSE <<Head(s)>> \o insertSorted(x, Tail(s))

RECURSIVE sortFrom(_, _)
sortFrom(a, i) ==
  IF i > Len(a) THEN <<>> ELSE insertSorted(a[i], sortFrom(a, i + 1))

\* Array.prototype.sort(): the elements of the array in ascending code-unit order
sort(a) == sortFrom(a, 1)

(***************************************************************************)
(* CreateMakefile.ts: the string-list formatters.                           *)
(***************************************************************************)
\* `arr.sort()` in place of `uniq(arr).sort()`: sorts the caller's array
uniqSortInPlace(a) == [arr |-> sort(a), sortedArray |-> sort(a)]

\* const sortedArray = uniq(arr).sort(): uniq allocates the array that sort
\* then orders in place; the record is the two arrays after the statement.
uniqSort(a) ==
  LET allocated == [arr |-> a, sortedArray |-> uniq(a)]
  IN  [allocated EXCEPT !.sortedArray = sort(@)]

\* createStringList with the continuation marker on every line, the last included
createStringListMarksLast(a, p) ==
  LET sortedArray == uniqSort(a).sortedArray
      line(ind) == (IF p # <<>> THEN p ELSE <<>>) \o sortedArray[ind] \o <<" ", "\\">> \o <<"\n">>
  IN  Concat([ind \in 1..Len(sortedArray) |-> line(ind)])

\* createStringList that never writes the continuation marker
createStringListNoMarker(a, p) ==
  LET sortedArray == uniqSort(a).sortedArray
      line(ind) == (IF p # <<>> THEN p ELSE <<>>) \o sortedArray[ind] \o <<"\n">>
  IN  Concat([ind \in 1..Len(sortedArray) |-> line(ind)])

\* createStringList(arr, prefix): one line per entry of the sorted array
\* (ind is 1-based here: ind < sortedArray.length - 1 of the 0-based code)
createStringList(a, p) ==
  LET sortedArray == uniqSort(a).sortedArray
      line(ind) ==
        (IF p # <<>> THEN p ELSE <<>>)
          \o sortedArray[ind]
          \o (IF ind < Len(sortedArray) THEN <<" ", "\\">> ELSE <<>>)
          \o <<"\n">>
  IN  Concat([ind \in 1..Len(sortedArray) |-> line(ind)])

\* createSingleLineStringList(arr, prefix): prefix + entry + ' ' per entry
createSingleLineStringList(a, p) ==
  LET sortedArray == uniqSort(a).sortedArray
      item(ind) == (IF p # <<>> THEN p ELSE <<>>) \o sortedArray[ind] \o <<" ">>
  IN  Concat([ind \in 1..Len(sortedArray) |-> item(ind)])

(***************************************************************************)
(* CreateMakefile.ts: conditional prefixing.                                *)
(***************************************************************************)
\* createPrefixWhenNoneExists that looks for the prefix at the start only
createPrefixWhenNotLeading(in, p) ==
  IF in = undefined \/ Len(in) = 0 THEN <<>>
  ELSE IF StartsWith(in, p) THEN in
  ELSE p \o in

\* createPrefixWhenNoneExists with the template's two parts swapped
createSuffixWhenNoneExists(in, p) ==
  IF in = undefined \/ Len(in) = 0 THEN <<>>
  ELSE IF Includes(in, p) THEN in
  ELSE in \o p

\* createPrefixWhenNoneExists(input, prefix)
createPrefixWhenNoneExists(in, p) ==
  IF in = undefined \/ Len(in) = 0 THEN <<>>
  ELSE IF Includes(in, p) THEN in
  ELSE p \o in

(***************************************************************************)
(* CreateMakefile.ts: the custom rule splicer.                              *)
(***************************************************************************)
\* an optional array: makeInfo.customMakefileRules may be undefined
Absent == [defined |-> FALSE, value |-> <<>>]
Present(v) == [defined |-> TRUE, value |-> v]

Banner39 == "#######################################"

\* the template literal newRule of one rule (dependsOn = '' when it is undefined)
newRule(currentValue) ==
  LET command == currentValue.command
      rule == currentValue.rule
      dependsOn == IF currentValue.dependsOn = undefined THEN <<>> ELSE currentValue.dependsOn
  IN  <<"\n">>
        \o <<Banner39, "\n">>
        \o <<"# ">> \o command \o <<"\n">>
        \o <<Banner39, "\n">>
        \o command \o <<":", " ">> \o dependsOn \o <<"\n">>
        \o <<"\t">> \o rule \o <<"\n">>
        \o <<"\t", "\t", "\t">>

\* Array.prototype.reduce((previousString, currentValue) => ..., '') from the left
RECURSIVE reduceRules(_, _, _)
reduceRules(rules, i, previousString) ==
  IF i > Len(rules) THEN previousString
  ELSE reduceRules(rules, i + 1, previousString \o <<"\n", "\n">> \o newRule(rules[i]))

\* customMakefileRules that puts each new rule in front of the previous ones
customMakefileRulesReversed(info) ==
  IF info.customMakefileRules.defined
  THEN LET rules == info.customMakefileRules.value
       IN  reduceRules([i \in 1..Len(rules) |-> rules[Len(rules) + 1 - i]], 1, <<>>)
  ELSE <<>>

\* customMakefileRules whose reduce starts from a blank block instead of ''
customMakefileRulesFromBlank(info) ==
  IF info.customMakefileRules.defined
  THEN reduceRules(info.customMakefileRules.value, 1, <<"\n", "\n">>)
  ELSE <<>>

\* customMakefileRules(makeInfo)
customMakefileRules(info) ==
  IF info.customMakefileRules.defined
  THEN reduceRules(info.customMakefileRules.value, 1, <<>>)
  ELSE <<>>

(***************************************************************************)
(* CreateMakefile.ts: the Makefile template.                                *)
(***************************************************************************)
\* Definitions.ts is not part of the sources at hand: the two names the
\* template interpolates, with the values the template's own comment and
\* the extension's Makefile name give them.
STM32_ENVIRONMENT_FILE_NAME == <<".stm32env">>
makefileName == <<"STM32Make.make">>

\* The list fields of a MakeInfo that createMakefile hands to a formatter.
FileGroups == {"cSources", "cxxSources", "asmSources", "cIncludes", "libs", "libdir"}
DefinitionGroups == {"cDefs", "cxxDefs", "asDefs"}
FlagSequences == {"cFlags", "cxxFlags", "assemblyFlags", "ldFlags"}
ListFields == FileGroups \cup DefinitionGroups \cup FlagSequences

\* The arrays of the caller's MakeInfo after createMakefile returned: every
\* list field went through one formatter call.
makeInfoAfterCreateMakefile(info) ==
  [f \in DOMAIN info |-> IF f \in ListFields THEN uniqSort(info[f]).arr ELSE info[f]]

\* createMakefile(makeInfo): the template literal, one line of it per line here
createMakefile(info) ==
  Concat(<<
    <<"##########################################################################################################################", "\n">>,
    <<"# File automatically-generated by STM32forVSCode", "\n">>,
    <<"##########################################################################################################################", "\n">>,
    <<"\n">>,
    <<"# ------------------------------------------------", "\n">>,
    <<"# Makefile used by STM32 For VSCode", "\n">>,
    <<"# WARNING: This file can be overwritten when project settings change", "\n">>,
    <<"# This Makefile can be used for CI/CD purposes to use it please make sure", "\n">>,
    <<"# you setup an environment file with the following name: ">> \o STM32_ENVIRONMENT_FILE_NAME \o <<".", "\n">>,
    <<"# This file is sourced at the start of this Makefile and will be used to set", "\n">>,
    <<"# compiler paths and other tooling paths.", "\n">>,
    <<"# Do note that most variables can also be overwritten when invoking make", "\n">>,
    <<"# e.g to change the optimization flags", "\n">>,
    <<"# make -j 16 -f ">> \o makefileName \o <<" DEBUG=0 OPTIMIZATION=-Os", "\n">>,
    <<"#", "\n">>,
    <<"# ChangeLog :", "\n">>,
    <<"#\t2017-02-10 - Several enhancements + project update mode", "\n">>,
    <<"#   2015-07-22 - first version", "\n">>,
    <<"#   2023-06-16 - Added .stm32env file inclusion", "\n">>,
    <<"#   2023-07-14 - Added file directory in the build folder", "\n">>,
    <<"#\t\t\t\t\t\t\t - Added debug and release build options", "\n">>,
    <<"#\t\t\t\t\t\t\t - Added multi platform support", "\n">>,
    <<"#\t\t\t\t\t\t\t - Added help target", "\n">>,
    <<"#\t\t\t\t\t\t\t - Added more documentation", "\n">>,
    <<"# ------------------------------------------------", "\n">>,
    <<"\n">>,
    <<"######################################", "\n">>,
    <<"# Environment Variables", "\n">>,
    <<"######################################", "\n">>,
    <<"# Imports the environment file in which the compiler and other tooling is set", "\n">>,
    <<"# for the build machine.", "\n">>,
    <<"# This can also be used to overwrite some makefile variables", "\n">>,
    <<"include", " ">> \o STM32_ENVIRONMENT_FILE_NAME \o <<"\n">>,
    <<"\n">>,
    <<"######################################", "\n">>,
    <<"# Target ", "\n">>,
    <<"######################################", "\n">>,
    <<"# This is the name of the embedded target which will be build", "\n">>,
    <<"# The final file name will also have debug or release appended to it.", "\n">>,
    <<"TARGET", " ", "?=", " ">> \o info.target \o <<"\n">>,
    <<"\n">>,
    <<"#######################################", "\n">>,
    <<"# Build directories", "\n">>,
    <<"#######################################", "\n">>,
    <<"# Build path can be overwritten when calling make or setting the environment variable", "\n">>,
    <<"# in ">> \o STM32_ENVIRONMENT_FILE_NAME \o <<"\n">>,
    <<"\n">>,
    <<"BUILD_DIRECTORY", " ", "?=", " ", "build", "\n">>,
    <<"\n">>,
    <<"\n">>,
    <<"######################################", "\n">>,
    <<"# Optimization", "\n">>,
    <<"######################################", "\n">>,
    <<"# Optimization is switched based upon the DEBUG variable. If set to 1", "\n">>,
    <<"# it will be build in debug mode with the Og optimization flag (optimized for debugging).", "\n">>,
    <<"# If set to 0 (false) then by default the variable is used in the configuration yaml", "\n">>,
    <<"# This can also be overwritten using the environment variable or by overwriting it", "\n">>,
    <<"# by calling make with the OPTIMIZATION variable e.g.: ", "\n">>,
    <<"# make -f ">> \o makefileName \o <<" -j 16  OPTIMIZATION=Os", "\n">>,
    <<"\n">>,
    <<"# variable which determines if it is a debug build", "\n">>,
    <<"DEBUG", " ", "?=", " ", "1", "\n">>,
    <<"\n">>,
    <<"# debug flags when debug is defined", "\n">>,
    <<"OPTIMIZATION", " ", "?=", " ">> \o info.optimization \o <<"\n">>,
    <<"\n">>,
    <<"ifeq", " ", "($(DEBUG),1)", "\n">>,
    <<"\t", "#", " ", "Sets", " ", "debugging", " ", "optimization", " ", "-Og", " ", "and", " ", "the", " ", "debug", " ", "information", " ", "output", "\n">>,
    <<"\t", "OPTIMIZATION_FLAGS", " ", "+=", " ", "-Og", " ", "-g", " ", "-gdwarf", " ", "-ggdb", "\n">>,
    <<"\t", "TARGET", " ", "+=", " ", "-debug", " ", "\n">>,
    <<"\t", "RELEASE_DIRECTORY", " ", "?=", " ", "$(BUILD_DIRECTORY)/debug", "\n">>,
    <<"else", "\n">>,
    <<"\t", "OPTIMIZATION_FLAGS", " ", "+=", " ", "$(OPTIMIZATION)", "\n">>,
    <<"\t", "TARGET", " ", "+=", " ", "-release", "\n">>,
    <<"\t", "RELEASE_DIRECTORY", " ", "?=", " ", "$(BUILD_DIRECTORY)/release", "\n">>,
    <<"endif", "\n">>,
    <<"\n">>,
    <<"######################################", "\n">>,
    <<"# Definitions", "\n">>,
    <<"######################################", "\n">>,
    <<"\n">>,
    <<"# C definitions", "\n">>,
    <<"C_DEFINITIONS", " ", "=", " ", " ">> \o <<"\\">> \o <<"\n">>,
    createStringList(info.cDefs, <<"-", "D">>) \o <<"\n">>,
    <<"\n">>,
    <<"# C++ definitions", "\n">>,
    <<"CXX_DEFINITIONS", " ", "=", " ", " ">> \o <<"\\">> \o <<"\n">>,
    createStringList(info.cxxDefs, <<"-", "D">>) \o <<"\n">>,
    <<"\n">>,
    <<"# Assembly definitions", "\n">>,
    <<"AS_DEFINITIONS", " ", "=", " ", " ">> \o <<"\\">> \o <<"\n">>,
    createStringList(info.asDefs, <<"-", "D">>) \o <<"\n">>,
    <<"\n">>,
    <<"######################################", "\n">>,
    <<"# Source Files", "\n">>,
    <<"######################################", "\n">>,
    <<"\n">>,
    <<"\n">>,
    <<"# C sources", "\n">>,
    <<"C_SOURCES", " ", "+=", " ", " ">> \o <<"\\">> \o <<"\n">>,
    createStringList(info.cSources, NoPrefix) \o <<"\n">>,
    <<"\n">>,
    <<"CXX_SOURCES", " ", "+=", " ">> \o <<"\\">> \o <<"\n">>,
    createStringList(info.cxxSources, NoPrefix) \o <<"\n">>,
    <<"\n">>,
    <<"# ASM sources", "\n">>,
    <<"AS_SOURCES", " ", "+=", " ", " ">> \o <<"\\">> \o <<"\n">>,
    createStringList(info.asmSources, NoPrefix) \o <<"\n">>,
    <<"\n">>,
    <<"\n">>,
    <<"######################################", "\n">>,
    <<"# Include Directories", "\n">>,
    <<"######################################", "\n">>,
    <<"# AS includes", "\n">>,
    <<"AS_INCLUDES", " ", "=", " ">> \o <<"\\">> \o <<"\n">>,
    <<"\n">>,
    <<"# C includes", "\n">>,
    <<"C_INCLUDES", " ", "=", " ", " ">> \o <<"\\">> \o <<"\n">>,
    createStringList(info.cIncludes, <<"-", "I">>) \o <<"\n">>,
    <<"\n">>,
    <<"\n">>,
    <<"######################################", "\n">>,
    <<"# Target System Flags", "\n">>,
    <<"######################################", "\n">>,
    <<"# The specific flags for the target system", "\n">>,
    <<"# This sets things like hardware floating point and", "\n">>,
    <<"# which version a specific Cortex-M processor is.", "\n">>,
    <<"\n">>,
    <<"# cpu", "\n">>,
    <<"CPU", " ", "=", " ">> \o createPrefixWhenNoneExists(info.cpu, <<"-", "m", "c", "p", "u", "=">>) \o <<"\n">>,
    <<"\n">>,
    <<"# fpu", "\n">>,
    <<"FPU", " ", "=", " ">> \o createPrefixWhenNoneExists(info.fpu, <<"-", "m", "f", "p", "u", "=">>) \o <<"\n">>,
    <<"\n">>,
    <<"# float-abi", "\n">>,
    <<"FLOAT-ABI", " ", "=", " ">> \o createPrefixWhenNoneExists(info.floatAbi, <<"-", "m", "f", "l", "o", "a", "t", "-", "a", "b", "i", "=">>) \o <<"\n">>,
    <<"\n">>,
    <<"# mcu", "\n">>,
    <<"MCU_FLAGS", " ", "=", " ", "$(CPU)", " ", "-mthumb", " ", "$(FPU)", " ", "$(FLOAT-ABI)", "\n">>,
    <<"\n">>,
    <<"\n">>,
    <<"######################################", "\n">>,
    <<"# C and CPP Flags", "\n">>,
    <<"######################################", "\n">>,
    <<"\n">>,
    <<"# additional flags provided by the STM32 for VSCode configuration file", "\n">>,
    <<"ADDITIONAL_C_FLAGS", " ", ":=", " ">> \o createSingleLineStringList(info.cFlags, NoPrefix) \o <<"\n">>,
    <<"ADDITIONAL_CXX_FLAGS", " ", ":=", " ">> \o createSingleLineStringList(info.cxxFlags, NoPrefix) \o <<"\n">>,
    <<"ADDITIONAL_AS_FLAGS", " ", ":=", " ">> \o createSingleLineStringList(info.assemblyFlags, NoPrefix) \o <<"\n">>,
    <<"\n">>,
    <<"# Provides dependency information about header files", "\n">>,
    <<"# This is used to recompile when a source file depends on", "\n">>,
    <<"# information from a header file", "\n">>,
    <<"DEPENDENCY_FLAGS", " ", "=", " ", "-MMD", " ", "-MP", " ", "-MF\"$(@:%.o=%.d)\"", "\n">>,
    <<"\n">>,
    <<"# Output a list file for the compiled source file.", "\n">>,
    <<"# This is a representative of the source code in assembly", "\n">>,
    <<"ASSEMBLER_LIST_OUTPUT_FLAG", " ", "=", " ", "-Wa,-a,-ad,-alms=$(@D)/$($(notdir", " ", "$@):%.o=%.lst)", "\n">>,
    <<"\n">>,
    <<"# Combining the compilation flags with language specific flags and MCU specific flags", "\n">>,
    <<"C_FLAGS", " ", "=", " ">> \o <<"\\">> \o <<"\n">>,
    <<"\t", "$(MCU_FLAGS)", " ">> \o <<"\\">> \o <<"\n">>,
    <<"\t", "$(C_DEFINITIONS)", " ">> \o <<"\\">> \o <<"\n">>,
    <<"\t", "$(C_INCLUDES)", " ">> \o <<"\\">> \o <<"\n">>,
    <<"\t", "$(OPTIMIZATION_FLAGS)", " ">> \o <<"\\">> \o <<"\n">>,
    <<"\t", "$(DEPENDENCY_FLAGS)", " ">> \o <<"\\">> \o <<"\n">>,
    <<"\t", "$(ADDITIONAL_C_FLAGS)", " ">> \o <<"\\">> \o <<"\n">>,
    <<"\t", "$(ASSEMBLER_LIST_OUTPUT_FLAG)", "\n">>,
    <<"\n">>,
    <<"CXX_FLAGS", " ", "=", " ">> \o <<"\\">> \o <<" ", "\n">>,
    <<"\t", "$(MCU_FLAGS)", " ">> \o <<"\\">> \o <<"\n">>,
    <<"\t", "$(CXX_DEFINITIONS)", " ">> \o <<"\\">> \o <<"\n">>,
    <<"\t", "$(C_INCLUDES)", " ">> \o <<"\\">> \o <<"\n">>,
    <<"\t", "$(OPTIMIZATION_FLAGS)", " ">> \o <<"\\">> \o <<"\n">>,
    <<"\t", "$(DEPENDENCY_FLAGS)", " ">> \o <<"\\">> \o <<"\n">>,
    <<"\t", "$(ADDITIONAL_CXX_FLAGS)", " ">> \o <<"\\">> \o <<"\n">>,
    <<"\t", "$(ASSEMBLER_LIST_OUTPUT_FLAG)", "\n">>,
    <<"\n">>,
    <<"AS_FLAGS", " ", "=", " ", "$(C_FLAGS)", " ", "$(AS_DEFINITIONS)", " ", "$(ADDITIONAL_AS_FLAGS)", "\n">>,
    <<"\n">>,
    <<"######################################", "\n">>,
    <<"# Linker Flags", "\n">>,
    <<"######################################", "\n">>,
    <<"# linker script. This script will determine where certain sections will", "\n">>,
    <<"# be place in memory.", "\n">>,
    <<"# For a good reference look at: https://blog.thea.codes/the-most-thoroughly-commented-linker-script/", "\n">>,
    <<"LINKER_SCRIPT", " ", ":=", " ", "-T">> \o info.ldscript \o <<"\n">>,
    <<"\n">>,
    <<"# libraries", "\n">>,
    <<"LIBRARIES", " ", ":=", " ">> \o <<"\\">> \o <<"\n">>,
    createStringList(info.libs, <<"-", "l">>) \o <<"\n">>,
    <<"\n">>,
    <<"# library directories", "\n">>,
    <<"LIBRARY_DIRECTORIES", " ", ":=", " ">> \o <<"\\">> \o <<"\n">>,
    createStringList(info.libdir, <<"-", "L">>) \o <<"\n">>,
    <<"\n">>,
    <<"# Additional linker flags Flags from the yaml configuration file", "\n">>,
    <<"# can be overwritten in the environment file", "\n">>,
    <<"ADDITIONAL_LINKER_FLAGS", " ", "?=", " ">> \o createSingleLineStringList(info.ldFlags, NoPrefix) \o <<"\n">>,
    <<"\n">>,
    <<"# Flags for outputting a map file", "\n">>,
    <<"# -Wl,-Map= flag will output the map file to the specified file", "\n">>,
    <<"# --cref will generate a cross reference table in the map file", "\n">>,
    <<"LINKER_MAP_FLAGS", " ", "?=", " ", "-Wl,-Map=$(RELEASE_DIRECTORY)/$(TARGET).map,--cref", "\n">>,
    <<"\n">>,
    <<"# Flags for cleaning up code at link time", "\n">>,
    <<"# --gc-sections will eliminate dead code e.g. unused functions", "\n">>,
    <<"LINKER_CLEAN_UP_FLAGS", " ", "?=", " ", "-Wl,--gc-sections", "\n">>,
    <<"\n">>,
    <<"LINKER_FLAGS", " ", "=", " ">> \o <<"\\">> \o <<"\n">>,
    <<"\t", "$(MCU_FLAGS)", " ">> \o <<"\\">> \o <<"\n">>,
    <<"\t", "$(LINKER_SCRIPT)", " ">> \o <<"\\">> \o <<"\n">>,
    <<"\t", "$(LIBRARY_DIRECTORIES)", " ">> \o <<"\\">> \o <<"\n">>,
    <<"\t", "$(LIBRARIES)", " ">> \o <<"\\">> \o <<"\n">>,
    <<"\t", "$(LINKER_MAP_FLAGS)", " ">> \o <<"\\">> \o <<"\n">>,
    <<"\t", "$(LINKER_CLEAN_UP_FLAGS)", "\n">>,
    <<"\n">>,
    <<"#######################################", "\n">>,
    <<"# Tools", "\n">>,
    <<"#######################################", "\n">>,
    <<"ARM_PREFIX", " ", "=", " ", "arm-none-eabi-", "\n">>,
    <<"POSTFIX", " ", "=", " ", "\"", "\n">>,
    <<"PREFIX", " ", "=", " ", "\"", "\n">>,
    <<"# The gcc compiler bin path can be defined in the make command via ARM_GCC_PATH variable (e.g.: make ARM_GCC_PATH=xxx)", "\n">>,
    <<"# or it can be added to the PATH environment variable.", "\n">>,
    <<"# By default the variable be used from the environment file: ">> \o STM32_ENVIRONMENT_FILE_NAME \o <<".", "\n">>,
    <<"# if it is not defined ", "\n">>,
    <<"\n">>,
    <<"ifdef", " ", "ARM_GCC_PATH", "\n">>,
    <<"\t", "\t", "CC", " ", "=", " ", "$(PREFIX)$(ARM_GCC_PATH)/$(ARM_PREFIX)gcc$(POSTFIX)", "\n">>,
    <<"\t", "\t", "CXX", " ", "=", " ", "$(PREFIX)$(ARM_GCC_PATH)/$(ARM_PREFIX)g++$(POSTFIX)", "\n">>,
    <<"\t", "\t", "AS", " ", "=", " ", "$(PREFIX)$(ARM_GCC_PATH)/$(ARM_PREFIX)gcc$(POSTFIX)", " ", "-x", " ", "assembler-with-cpp", "\n">>,
    <<"\t", "\t", "CP", " ", "=", " ", "$(PREFIX)$(ARM_GCC_PATH)/$(ARM_PREFIX)objcopy$(POSTFIX)", "\n">>,
    <<"\t", "\t", "SZ", " ", "=", " ", "$(PREFIX)$(ARM_GCC_PATH)/$(ARM_PREFIX)size$(POSTFIX)", "\n">>,
    <<"else", "\n">>,
    <<"\t", "CC", " ", "?=", " ", "$(ARM_PREFIX)gcc", "\n">>,
    <<"\t", "CXX", " ", "?=", " ", "$(ARM_PREFIX)g++$", "\n">>,
    <<"\t", "AS", " ", "?=", " ", "$(ARM_PREFIX)gcc", " ", "-x", " ", "assembler-with-cpp", "\n">>,
    <<"\t", "CP", " ", "?=", " ", "$(ARM_PREFIX)objcopy", "\n">>,
    <<"\t", "SZ", " ", "?=", " ", "$(ARM_PREFIX)size", "\n">>,
    <<"endif", "\n">>,
    <<"\n">>,
    <<"HEX", " ", "=", " ", "$(CP)", " ", "-O", " ", "ihex", "\n">>,
    <<"BIN", " ", "=", " ", "$(CP)", " ", "-O", " ", "binary", " ", "-S", "\n">>,
    <<"\n">>,
    <<"# Flash and debug tools", "\n">>,
    <<"# Default is openocd however will be gotten from the ", "\n">>,
    <<"OPENOCD", " ", "?=", " ", "openocd", "\n">>,
    <<"\n">>,
    <<"REMOVE_DIRECTORY_COMMAND", " ", "=", " ", "rm", " ", "-fR", "\n">>,
    <<"MKDIR_COMMAND", " ", "=", " ", "mkdir", "\n">>,
    <<"ifeq", " ", "($(OS),Windows_NT)", "\n">>,
    <<"\t", "REMOVE_DIRECTORY_COMMAND", " ", "=", " ", "cmd", " ", "/c", " ", "rd", " ", "/s", " ", "/q", "\n">>,
    <<"else", "\n">>,
    <<"\t", "MKDIR_COMMAND", " ", "+=", " ", "-p", "\n">>,
    <<"endif", "\n">>,
    <<"\n">>,
    <<"#######################################", "\n">>,
    <<"# Build rules ", "\n">>,
    <<"#######################################", "\n">>,
    <<"\n">>,
    <<"# Create object list", "\n">>,
    <<"# Create object list", "\n">>,
    <<"OBJECTS", " ", "=", " ", "$(addprefix", " ", "$(RELEASE_DIRECTORY)/,$(addsuffix", " ", ".o,$(basename", " ", "$(C_SOURCES))))", "\n">>,
    <<"# objects for the different C++ file extensions", "\n">>,
    <<"OBJECTS", " ", "+=", " ", "$(addprefix", " ", "$(RELEASE_DIRECTORY)/,$(addsuffix", " ", ".o,$(basename", " ", "$(CXX_SOURCES))))", "\n">>,
    <<"# Objects for assembly code", "\n">>,
    <<"OBJECTS", " ", "+=", " ", "$(addprefix", " ", "$(RELEASE_DIRECTORY)/,$(addsuffix", " ", ".o,$(basename", " ", "$(AS_SOURCES))))", "\n">>,
    <<"\n">>,
    <<"# Dependency files", "\n">>,
    <<"DEPENDENCY_FILES", " ", "=", " ", "$(OBJECTS:.o=.d)", "\n">>,
    <<"\n">>,
    <<"\n">>,
    <<"# the tree of folders which needs to be present based on the object files", "\n">>,
    <<"BUILD_TREE", " ", "=", " ", "$(sort", " ", "$(dir", " ", "$(OBJECTS)))", "\n">>,
    <<"\n">>,
    <<"\n">>,
    <<"\n">>,
    <<"#######################################", "\n">>,
    <<"# Build targets", "\n">>,
    <<"#######################################", "\n">>,
    <<"# default action: build all", "\n">>,
    <<".PHONY:", " ", "all", "\n">>,
    <<"all:", " ", "$(BUILD_DIR)/$(TARGET).elf", " ", "$(BUILD_DIR)/$(TARGET).hex", " ", "$(BUILD_DIR)/$(TARGET).bin", "\n">>,
    <<"\n">>,
    <<"# Makes the build directory", "\n">>,
    <<"$(BUILD_DIRECTORY):", "\n">>,
    <<"\t", "$(MKDIR_COMMAND)", " ", "$@", "\n">>,
    <<"\n">>,
    <<"# Makes the release folder", "\n">>,
    <<"$(RELEASE_DIRECTORY):", " ", "|", " ", "$(BUILD_DIRECTORY)", "\n">>,
    <<"\t", "$(MKDIR_COMMAND)", " ", "$@", "\n">>,
    <<"\n">>,
    <<"$(BUILD_TREE):", "\n">>,
    <<"\t", "$(MKDIR_COMMAND)", " ", "$@", "\n">>,
    <<"\n">>,
    <<"\n">>,
    <<"#######################################", "\n">>,
    <<"# Build Firmware", "\n">>,
    <<"#######################################", "\n">>,
    <<"\n">>,
    <<"FINAL_TARGET_NAME", " ", "=", " ", "$(RELEASE_DIRECTORY)/$(TARGET)", "\n">>,
    <<"ELF_TARGET", " ", "=", " ", "$(FINAL_TARGET_NAME).elf", "\n">>,
    <<"\n">>,
    <<"$(FINAL_TARGET_NAME).elf:", " ", "$(OBJECTS)", " ">> \o makefileName \o <<" ", "\n">>,
    <<"\t", "$(CC)", " ", "$(OBJECTS)", " ", "$(LDFLAGS)", " ", "-o", " ", "$@", "\n">>,
    <<"\t", "$(SZ)", " ", "$@", "\n">>,
    <<"\n">>,
    <<"$(FINAL_TARGET_NAME).hex:", " ", "$(FINAL_TARGET_NAME).elf", " ", "\n">>,
    <<"\t", "$(HEX)", " ", "$<", " ", "$@", "\n">>,
    <<"\n">>,
    <<"$(FINAL_TARGET_NAME).bin:", " ", "$(FINAL_TARGET_NAME).elf", " ", "\n">>,
    <<"\t", "$(BIN)", " ", "$<", " ", "$@", "\n">>,
    <<"\n">>,
    <<"\n">>,
    <<"#######################################", "\n">>,
    <<"# Build rules", "\n">>,
    <<"#######################################", "\n">>,
    <<"\n">>,
    <<"sourcefile", " ", "=", " ", "$(patsubst", " ", "$(RELEASE_FOLDER)/%.o,%.c,$(1))", "\n">>,
    <<"# Rules for creating the object files from the source files", "\n">>,
    <<"# c files", "\n">>,
    <<"$(RELEASE_DIRECTORY)/%.o:", " ", "%", ".", "c", " ", "$(RELEASE_DIRECTORY)/%.d", " ", "|", " ", "$(BUILD_TREE)", "\n">>,
    <<"\t", "$(CC)", " ", "$(C_FLAGS)", " ", "-c", " ", "$<", " ", "-o", " ", "$@", "\n">>,
    <<"\n">>,
    <<"# cpp files", "\n">>,
    <<"$(RELEASE_DIRECTORY)/%.o:", " ", "%", ".", "c", "p", "p", " ", "$(RELEASE_DIRECTORY)/%.d", " ", "|", " ", "$(BUILD_TREE)", "\n">>,
    <<"\t", "$(CXX)", " ", "$(CXX_FLAGS)", " ", "-c", " ", "$<", " ", "-o", " ", "$@", "\n">>,
    <<"$(RELEASE_DIRECTORY)/%.o:", " ", "%", ".", "c", "c", " ", "$(RELEASE_DIRECTORY)/%.d", " ", "|", " ", "$(BUILD_TREE)", "\n">>,
    <<"\t", "$(CXX)", " ", "$(CXX_FLAGS)", " ", "-c", " ", "$<", " ", "-o", " ", "$@", "\n">>,
    <<"$(RELEASE_DIRECTORY)/%.o:", " ", "%", ".", "c", "p", " ", "$(RELEASE_DIRECTORY)/%.d", " ", "|", " ", "$(BUILD_TREE)", "\n">>,
    <<"\t", "$(CXX)", " ", "$(CXX_FLAGS)", " ", "-c", " ", "$<", " ", "-o", " ", "$@", "\n">>,
    <<"$(RELEASE_DIRECTORY)/%.o:", " ", "%", ".", "C", "P", "P", " ", "$(RELEASE_DIRECTORY)/%.d", " ", "|", " ", "$(BUILD_TREE)", "\n">>,
    <<"\t", "$(CXX)", " ", "$(CXX_FLAGS)", " ", "-c", " ", "$<", " ", "-o", " ", "$@", "\n">>,
    <<"$(RELEASE_DIRECTORY)/%.o:", " ", "%", ".", "c", "+", "+", " ", "$(RELEASE_DIRECTORY)/%.d", " ", "|", " ", "$(BUILD_TREE)", "\n">>,
    <<"\t", "$(CXX)", " ", "$(CXX_FLAGS)", " ", "-c", " ", "$<", " ", "-o", " ", "$@", "\n">>,
    <<"$(RELEASE_DIRECTORY)/%.o:", " ", "%", ".", "C", "+", "+", " ", "$(RELEASE_DIRECTORY)/%.d", " ", "|", " ", "$(BUILD_TREE)", "\n">>,
    <<"\t", "$(CXX)", " ", "$(CXX_FLAGS)", " ", "-c", " ", "$<", " ", "-o", " ", "$@", "\n">>,
    <<"\n">>,
    <<"# assembly files", "\n">>,
    <<"$(RELEASE_DIRECTORY)/%.o:", " ", "%", ".", "s", " ", "$(RELEASE_DIRECTORY)/%.d", " ", "|", " ", "$(BUILD_TREE)", "\n">>,
    <<"\t", "$(CXX)", " ", "$(CXX_FLAGS)", " ", "-c", " ", "$<", " ", "-o", " ", "$@", "\n">>,
    <<"$(RELEASE_DIRECTORY)/%.o:", " ", "%", ".", "S", " ", "$(RELEASE_DIRECTORY)/%.d", " ", "|", " ", "$(BUILD_TREE)", "\n">>,
    <<"\t", "$(CXX)", " ", "$(CXX_FLAGS)", " ", "-c", " ", "$<", " ", "-o", " ", "$@", "\n">>,
    <<"\n">>,
    <<"#######################################", "\n">>,
    <<"# Build targets", "\n">>,
    <<"#######################################", "\n">>,
    <<"# Makes the build directory", "\n">>,
    <<"$(BUILD_DIRECTORY):", "\n">>,
    <<"\t", "$(MKDIR_COMMAND)", " ", "$@", "\n">>,
    <<"\n">>,
    <<"# Makes the release folder", "\n">>,
    <<"$(RELEASE_DIRECTORY):", " ", "|", " ", "$(BUILD_DIRECTORY)", "\n">>,
    <<"\t", "$(MKDIR_COMMAND)", " ", "$@", "\n">>,
    <<"\n">>,
    <<"$(BUILD_TREE):", "\n">>,
    <<"\t", "$(MKDIR_COMMAND)", " ", "$@", "\n">>,
    <<"\n">>,
    <<"#######################################", "\n">>,
    <<"# All", "\n">>,
    <<"#######################################", "\n">>,
    <<"# default action: build all", "\n">>,
    <<".PHONY:", " ", "all", "\n">>,
    <<"all:", " ", "$(FINAL_TARGET_NAME).elf", " ", "$(FINAL_TARGET_NAME).hex", " ", "$(FINAL_TARGET_NAME).bin", "\n">>,
    <<"\n">>,
    <<"#######################################", "\n">>,
    <<"# flash", "\n">>,
    <<"#######################################", "\n">>,
    <<"flash:", " ", "$(FINAL_TARGET_NAME).elf", "\n">>,
    <<"\t", "$(OPENOCD)", " ", "-f", " ", "./openocd.cfg", " ", "-c", " ", "\"program", " ", "$(FINAL_TARGET_NAME).elf", " ", "verify", " ", "reset", " ", "exit\"", "\n">>,
    <<"\n">>,
    <<"#######################################", "\n">>,
    <<"# erase", "\n">>,
    <<"#######################################", "\n">>,
    <<"erase:", " ", "$(BUILD_DIR)/$(TARGET).elf", "\n">>,
    <<"\t", "$(OPENOCD)", " ", "-f", " ", "./openocd.cfg", " ", "-c", " ", "\"init;", " ", "reset", " ", "halt;", " ">> \o info.targetMCU \o <<" ", "mass_erase", " ", "0;", " ", "exit\"", "\n">>,
    <<"\n">>,
    <<"#######################################", "\n">>,
    <<"# clean up", "\n">>,
    <<"#######################################", "\n">>,
    <<"\n">>,
    <<"clean:", "\n">>,
    <<"\t", "$(REMOVE_DIRECTORY_COMMAND)", " ", "$(BUILD_DIR)", "\n">>,
    <<"\n">>,
    <<"#######################################", "\n">>,
    <<"# custom makefile rules", "\n">>,
    <<"#######################################", "\n">>,
    <<"\n">>,
    customMakefileRules(info) \o <<"\n">>,
    <<"\t", "\n">>,
    <<"#######################################", "\n">>,
    <<"# dependencies", "\n">>,
    <<"#######################################", "\n">>,
    <<"-include", " ", "$(wildcard", " ", "$(RELEASE_DIRECTORY)/*.d)", "\n">>,
    <<"\n">>,
    <<"# *** EOF ***">>
  >>)


(***************************************************************************)
(* The file classifier (sortFiles and what it calls).                       *)
(***************************************************************************)
\* _.toLower on the letters the inputs use
LowerCase ==
  ("A" :> "a") @@ ("B" :> "b") @@ ("C" :> "c") @@ ("D" :> "d") @@ ("H" :> "h") @@
  ("I" :> "i") @@ ("L" :> "l") @@ ("O" :> "o") @@ ("P" :> "p") @@ ("S" :> "s") @@
  ("W" :> "w") @@ ("X" :> "x")

toLower(s) == [i \in 1..Len(s) |-> IF s[i] \in DOMAIN LowerCase THEN LowerCase[s[i]] ELSE s[i]]

\* entry.split('.').pop(): what follows the last '.', the whole entry without one
lastDotSegment(entry) ==
  LET dots == {i \in 1..Len(entry) : entry[i] = "."}
  IN  IF dots = {} THEN entry
      ELSE LET lastDot == CHOOSE i \in dots : \A j \in dots : j <= i
           IN  SubSeq(entry, lastDot + 1, Len(entry))

\* path.posix.dirname: cut at the last '/' that is followed by a name; k is
\* the 1-based place of that '/', the place 1 being left to hasRoot
dirname(path) ==
  IF Len(path) = 0 THEN <<".">>
  ELSE
    LET hasRoot == path[1] = "/"
        cuts == {k \in 2..Len(path) :
                   path[k] = "/" /\ \E j \in (k + 1)..Len(path) : path[j] # "/"}
    IN  IF cuts = {} THEN (IF hasRoot THEN <<"/">> ELSE <<".">>)
        ELSE LET k == CHOOSE c \in cuts : \A d \in cuts : d <= c
             IN  IF hasRoot /\ k = 2 THEN <<"/", "/">> ELSE SubSeq(path, 1, k - 1)

\* the classification without _.toLower
bucketOfCaseSensitive(entry) ==
  LET extension == lastDotSegment(entry)
  IN  IF extension \in {<<"c", "p", "p">>, <<"c", "x", "x">>, <<"c", "c">>} THEN "cxxSources"
      ELSE IF extension = <<"c">> THEN "cSources"
      ELSE IF extension = <<"s">> THEN "assemblySources"
      ELSE IF extension = <<"a">> THEN "libraryDirectories"
      ELSE "none"

\* the bucket an entry is pushed to ("none": no push), by its lower-cased extension
bucketOf(entry) ==
  LET extension == toLower(lastDotSegment(entry))
  IN  IF extension \in {<<"c", "p", "p">>, <<"c", "x", "x">>, <<"c", "c">>} THEN "cxxSources"
      ELSE IF extension = <<"c">> THEN "cSources"
      ELSE IF extension \in {<<"h">>, <<"h", "p", "p">>} THEN "none"
      ELSE IF extension = <<"s">> THEN "assemblySources"
      ELSE IF extension = <<"a">> THEN "libraryDirectories"
      ELSE "none"

\* what one entry pushes to its bucket
pushed(entry) ==
  IF bucketOf(entry) = "libraryDirectories" THEN dirname(entry) ELSE entry

\* the pushes of the classification pass to one bucket, in list order
RECURSIVE pushesTo(_, _, _)
pushesTo(key, files, i) ==
  IF i > Len(files) THEN <<>>
  ELSE IF bucketOf(files[i]) = key THEN <<pushed(files[i])>> \o pushesTo(key, files, i + 1)
  ELSE pushesTo(key, files, i + 1)

\* the buckets of BuildFiles that sortFiles pushes to
Buckets == {"cSources", "cxxSources", "assemblySources", "libraryDirectories"}

\* _.set(entry, key, _.uniq(entry)); entry.sort(): the array object `entry`
\* gets an own property named key that holds the deduplicated copy, and its
\* elements are then sorted in place.  An array is its elements and its
\* own named properties.
setUniqThenSort(entry, key) ==
  LET afterSet == [elements |-> entry.elements,
                   named |-> [k \in {key} |-> uniq(entry.elements)]]
  IN  [afterSet EXCEPT !.elements = sort(@)]

\* sortFiles(list)
sortFiles(files) ==
  LET populated == [key \in Buckets |-> [elements |-> pushesTo(key, files, 1),
                                         named |-> [k \in {} |-> <<>>]]]
  IN  [key \in Buckets |-> setUniqThenSort(populated[key], key)]


(***************************************************************************)
(* The extraction rules of getCubeMakefileInfo.  The file is not among the  *)
(* sources at hand (its tests are): the rules are written from their        *)
(* description in the specification, sections 4.2 and 4.5.                  *)
(***************************************************************************)
Blank == {" ", "\t"}

\* text.split on line ends, on text[lo..hi]: the lines of a text are the
\* lines of its first half, the last of them continued by the first line of
\* the second half, and the other lines of the second half
RECURSIVE splitRange(_, _, _)
splitRange(text, lo, hi) ==
  IF lo > hi THEN << <<>> >>
  ELSE IF lo = hi THEN (IF text[lo] = "\n" THEN << <<>>, <<>> >> ELSE << <<text[lo]>> >>)
  ELSE LET mid == (lo + hi) \div 2
           left == splitRange(text, lo, mid)
           right == splitRange(text, mid + 1, hi)
       IN  SubSeq(left, 1, Len(left) - 1)
             \o << left[Len(left)] \o right[1] >>
             \o SubSeq(right, 2, Len(right))

splitLines(text) == splitRange(text, 1, Len(text))

\* String.prototype.trim on a line
trim(line) ==
  LET solid == {i \in 1..Len(line) : line[i] \notin Blank}
  IN  IF solid = {} THEN <<>>
      ELSE SubSeq(line, CHOOSE i \in solid : \A j \in solid : i <= j,
                        CHOOSE i \in solid : \A j \in solid : j <= i)

\* the continuation marker: the backslash that ends a line
hasMarker(line) == trim(line) # <<>> /\ trim(line)[Len(trim(line))] = "\\"
withoutMarker(line) ==
  IF hasMarker(line) THEN trim(SubSeq(trim(line), 1, Len(trim(line)) - 1)) ELSE trim(line)

\* the assignment syntaxes of a Makefile
AssignmentSyntaxes == {"=", "+=", ":=", "?="}

\* the key match is case-insensitive: the spellings of the variable names
\* that differ from the upper-case one, and the key a name is matched by
UpperCaseName ==
  ("c_sources" :> "C_SOURCES") @@ ("C_Sources" :> "C_SOURCES") @@
  ("libraries" :> "LIBRARIES") @@ ("Libraries" :> "LIBRARIES") @@
  ("target" :> "TARGET")

keyOf(name) == IF name \in DOMAIN UpperCaseName THEN UpperCaseName[name] ELSE name

\* the line assigns the variable: its name, blanks, an assignment operator
isAssignmentOf(name, line) ==
  LET t == trim(line)
      after == {i \in 2..Len(t) : t[i] \notin Blank}
  IN  /\ Len(line) >= 2
      /\ keyOf(line[1]) = keyOf(name) \/ line[1] \in Blank
      /\ Len(t) >= 2
      /\ keyOf(t[1]) = keyOf(name)
      /\ after # {}
      /\ t[CHOOSE i \in after : \A j \in after : i <= j] \in AssignmentSyntaxes

\* the place of the first line that assigns the variable, 0 when there is none
assignmentLine(name, lines) ==
  LET found == {i \in 1..Len(lines) : isAssignmentOf(name, lines[i])}
  IN  IF found = {} THEN 0 ELSE CHOOSE i \in found : \A j \in found : i <= j

\* the continuation lines from line j on: one trimmed entry per line, up to
\* and including the first line without the marker; a blank line ends the value
RECURSIVE continuationLines(_, _)
continuationLines(lines, j) ==
  IF j > Len(lines) \/ trim(lines[j]) = <<>> THEN <<>>
  ELSE IF hasMarker(lines[j]) THEN <<withoutMarker(lines[j])>> \o continuationLines(lines, j + 1)
  ELSE <<trim(lines[j])>>

\* the multi-line rule that stops before the line without the marker
multiLineInfoMarkedOnly(name, lines) ==
  LET at == assignmentLine(name, lines)
      all == IF at = 0 \/ ~hasMarker(lines[at]) THEN <<>> ELSE continuationLines(lines, at + 1)
      marked == {i \in 1..Len(all) : hasMarker(lines[at + i])}
  IN  SubSeq(all, 1, Cardinality(marked))

\* the multi-line rule on the lines of the text
multiLineInfo(name, lines) ==
  LET at == assignmentLine(name, lines)
  IN  IF at = 0 \/ ~hasMarker(lines[at]) THEN <<>>
      ELSE continuationLines(lines, at + 1)

\* extractMultiLineInfo(name, makefile)
extractMultiLineInfo(name, text) == multiLineInfo(name, splitLines(text))

\* the whitespace-separated tokens of a line
RECURSIVE tokensOf(_, _, _)
tokensOf(line, i, current) ==
  IF i > Len(line) THEN (IF current = <<>> THEN <<>> ELSE <<current>>)
  ELSE IF line[i] \in Blank
       THEN (IF current = <<>> THEN <<>> ELSE <<current>>) \o tokensOf(line, i + 1, <<>>)
  ELSE tokensOf(line, i + 1, Append(current, line[i]))

\* the value of an assignment: what follows the operator on its line, and
\* the lines it continues on
valueOf(lines, at) ==
  LET t == trim(lines[at])
      op == CHOOSE i \in 2..Len(t) : t[i] \in AssignmentSyntaxes /\ \A j \in 2..(i - 1) : t[j] \in Blank
      first == withoutMarker(SubSeq(t, op + 1, Len(t)))
      rest == IF hasMarker(t) THEN continuationLines(lines, at + 1) ELSE <<>>
  IN  <<first>> \o rest

\* the library rule that returns each token once
librariesOfUniq(lines) ==
  LET at == assignmentLine("LIBRARIES", lines)
      value == IF at = 0 THEN <<>> ELSE valueOf(lines, at)
      tokens == Concat([i \in 1..Len(value) |-> tokensOf(value[i], 1, <<>>)])
  IN  uniq(SelectSeq(tokens, LAMBDA tok : StartsWith(tok, <<"-", "l">>)))

\* the library rule on the lines of the text
librariesOf(lines) ==
  LET at == assignmentLine("LIBRARIES", lines)
      value == IF at = 0 THEN <<>> ELSE valueOf(lines, at)
      tokens == Concat([i \in 1..Len(value) |-> tokensOf(value[i], 1, <<>>)])
  IN  SelectSeq(tokens, LAMBDA tok : StartsWith(tok, <<"-", "l">>))

\* extractlibraries(makefile): the tokens of the libraries value that start with -l
extractlibraries(text) == librariesOf(splitLines(text))

\* removePrefixes that removes the prefix wherever it first occurs
removeFirstOccurrence(entries, p) ==
  [i \in 1..Len(entries) |->
     LET e == entries[i]
         at == {k \in 0..(Len(e) - Len(p)) : SubSeq(e, k + 1, k + Len(p)) = p}
     IN  IF at = {} THEN e
         ELSE LET k == CHOOSE x \in at : \A y \in at : x <= y
              IN  SubSeq(e, 1, k) \o SubSeq(e, k + Len(p) + 1, Len(e))]

\* removePrefixes(list, prefix): one leading occurrence of the prefix is cut
removePrefixes(entries, p) ==
  [i \in 1..Len(entries) |->
     IF StartsWith(entries[i], p)
     THEN SubSeq(entries[i], Len(p) + 1, Len(entries[i]))
     ELSE entries[i]]

\* extractMakefileInfo(makefile), the fields the round trip reads
extractMakefileInfo(text) ==
  LET lines == splitLines(text)
  IN  [cSources |-> multiLineInfo("C_SOURCES", lines),
       cxxSources |-> multiLineInfo("CXX_SOURCES", lines),
       assemblySources |-> multiLineInfo("AS_SOURCES", lines),
       cIncludeDirectories |-> multiLineInfo("C_INCLUDES", lines),
       cDefinitions |-> multiLineInfo("C_DEFINITIONS", lines),
       cxxDefinitions |-> multiLineInfo("CXX_DEFINITIONS", lines),
       assemblyDefinitions |-> multiLineInfo("AS_DEFINITIONS", lines),
       libraries |-> librariesOf(lines),
       libraryDirectories |-> multiLineInfo("LIBRARY_DIRECTORIES", lines)]


(***************************************************************************)
(* The inputs explored.                                                     *)
(***************************************************************************)
ArraysOf(T, n) == UNION {[1..k -> T] : k \in 0..n}
Range(a) == {a[i] : i \in 1..Len(a)}

\* entries handed to the formatters: '', a, ab, b, B
FormatTokens == {<<>>, <<"a">>, <<"a", "b">>, <<"b">>, <<"B">>}
FormatPrefixes == {NoPrefix, <<"-", "D">>}

\* tokens handed to createPrefixWhenNoneExists: every string over - l D a
PrefixAlphabet == {"-", "l", "D", "a"}
PrefixTokens == ArraysOf(PrefixAlphabet, MaxTokLen)
FlagPrefixes == {<<"-", "l">>, <<"-", "I">>, <<"-", "D">>}
Prefixes == FlagPrefixes \cup {<<"l">>, <<>>}

\* entries handed to removePrefixes: -la, a-l, -l-la, '-l a', a, and the
\* list of the test 'remove prefixes'
PrefixedTokens ==
  {<<"-", "l", "a">>, <<"a", "-", "l">>, <<"-", "l", "-", "l", "a">>,
   <<"-", "l", " ", "a">>, <<"a">>}
PrefixedTestList ==
  << <<"-", "l", "e", "n", "t", "r", "y", "1">>,
     <<"-", "l", "e", "n", "t", "r", "y", "_", "t", "w", "o", "-", "l">>,
     <<"-", "l", " ", "e", "n", "t", "r", "y", " ", "t", "h", "r", "e", "e">> >>
UnPrefixedTestList ==
  << <<"e", "n", "t", "r", "y", "1">>,
     <<"e", "n", "t", "r", "y", "_", "t", "w", "o", "-", "l">>,
     <<" ", "e", "n", "t", "r", "y", " ", "t", "h", "r", "e", "e">> >>

\* custom rules: commands a, b; one rule body; dependsOn omitted, '' or d
CustomRules ==
  [command : {<<"a">>, <<"b">>}, rule : {<<"x">>}, dependsOn : {undefined, <<>>, <<"d">>}]

\* the entries each list field of a MakeInfo is filled from
FieldTokens ==
  [f \in ListFields |->
     CASE f = "cSources" -> {<<"a", ".", "c">>, <<"b", ".", "c">>, <<"B", ".", "C">>}
       [] f = "cxxSources" -> {<<"a", ".", "c", "p", "p">>, <<"b", ".", "c", "x", "x">>, <<"a", ".", "c", "c">>}
       [] f = "asmSources" -> {<<"a", ".", "s">>, <<"b", ".", "S">>, <<"s", ".", "s">>}
       [] f = "cIncludes" -> {<<"a">>, <<"-", "I", "a">>, <<"b", "-", "I">>}
       [] f = "libs" -> {<<"a">>, <<"-", "l", "a">>, <<"b", "-", "l">>}
       [] f = "libdir" -> {<<"a">>, <<"-", "L", "a">>, <<"b", "-", "L">>}
       [] f \in DefinitionGroups -> {<<"A">>, <<"-", "D", "A">>, <<"B", "-", "D">>}
       [] f \in FlagSequences -> {<<"-", "g">>, <<"-", "W">>, <<"-", "O">>}]

CortexM7 == <<"c", "o", "r", "t", "e", "x", "-", "m", "7">>

\* a MakeInfo with empty lists and no custom rules
EmptyMakeInfo ==
  [target |-> <<"f", "w">>,
   cpu |-> CortexM7,
   fpu |-> <<"f", "p", "v", "5">>,
   floatAbi |-> <<"h", "a", "r", "d">>,
   targetMCU |-> <<"s", "t", "m", "3", "2", "h", "7", "x">>,
   ldscript |-> <<"a", ".", "l", "d">>,
   optimization |-> <<"-", "O", "s">>,
   cSources |-> <<>>, cxxSources |-> <<>>, asmSources |-> <<>>,
   cIncludes |-> <<>>, libs |-> <<>>, libdir |-> <<>>,
   cDefs |-> <<>>, cxxDefs |-> <<>>, asDefs |-> <<>>,
   cFlags |-> <<>>, cxxFlags |-> <<>>, assemblyFlags |-> <<>>, ldFlags |-> <<>>,
   customMakefileRules |-> Absent]

\* a MakeInfo whose lists are filled out of order and with repeats
FilledMakeInfo ==
  [EmptyMakeInfo EXCEPT
     !.cSources = << <<"b", ".", "c">>, <<"a", ".", "c">>, <<"b", ".", "c">> >>,
     !.cxxSources = << <<"a", ".", "c", "p", "p">>, <<"a", ".", "c", "c">> >>,
     !.asmSources = << <<"s", ".", "s">>, <<"a", ".", "s">> >>,
     !.cIncludes = << <<"b", "-", "I">>, <<"a">> >>,
     !.libs = << <<"b", "-", "l">>, <<"a">>, <<"a">> >>,
     !.libdir = << <<"a">> >>,
     !.cDefs = << <<"B", "-", "D">>, <<"A">> >>,
     !.cxxDefs = << <<"A">>, <<"A">> >>,
     !.asDefs = << <<"-", "D", "A">> >>,
     !.cFlags = << <<"-", "g">> >>,
     !.cxxFlags = << <<"-", "O">>, <<"-", "g">> >>,
     !.assemblyFlags = << <<"-", "g">> >>,
     !.ldFlags = << <<"-", "W">> >>,
     !.cpu = <<"-", "m", "c", "p", "u", "=">> \o CortexM7,
     !.customMakefileRules =
        Present(<< [command |-> <<"a">>, rule |-> <<"x">>, dependsOn |-> undefined] >>)]

\* customMakefileRules of a MakeInfo: undefined, [] or one rule
RuleLists == {Absent} \cup {Present(v) : v \in ArraysOf(CustomRules, 1)}

MakeInfos ==
  UNION {{[b EXCEPT ![f] = v] :
            b \in {EmptyMakeInfo, FilledMakeInfo},
            v \in ArraysOf(FieldTokens[f], MaxGroupLen)} : f \in ListFields}
  \cup {[b EXCEPT !.customMakefileRules = r] :
           b \in {EmptyMakeInfo, FilledMakeInfo}, r \in RuleLists}

\* paths handed to sortFiles
FilePaths ==
  {<<"a", ".", "c">>, <<"a", ".", "C">>, <<"a", ".", "c", "p", "p">>,
   <<"a", ".", "c", "x", "x">>, <<"a", ".", "s">>, <<"a", ".", "h">>,
   <<"d", "/", "a", ".", "a">>, <<"d", "/", "b", ".", "a">>, <<"a", ".", "b">>,
   <<"a", ".", "c", "c">>, <<"a", ".", "h", "p", "p">>, <<"a", ".", "c", ".", "h">>}

\* a Makefile with a single-line TARGET, one multi-line variable and a line
\* after it: the name as it is written, the assignment operator, the blanks
\* in front of every continuation line, and the entries, one on each line
FixtureMakefile(written, op, pad, entries) ==
  <<"TARGET", " ", "=", " ", "f", "w", "\n">>
    \o <<written, " ", op, " ", "\\", "\n">>
    \o Concat([i \in 1..Len(entries) |->
                 pad \o entries[i]
                   \o (IF i < Len(entries) THEN <<" ", "\\">> ELSE <<>>) \o <<"\n">>])
    \o <<"\n", "OPT", " ", "=", " ", "-", "O", "g", "\n">>

EntryLines == {<<"a">>, <<"b">>, <<"a", " ", "b">>}
EntryPads == {<<>>, <<" ">>, <<"\t", " ">>}
WrittenOperators == {"=", "+="}
SourcesSpellings == {"C_SOURCES", "c_sources"}
\* the names looked for: the variable in two spellings, a variable with a
\* single-line value, and a variable the text does not hold
SearchedNames == SourcesSpellings \cup {"TARGET", "C_DEFS"}
\* texts without a line end, and the empty text
OddMakefiles ==
  {<<>>, <<"C_SOURCES">>, <<"C_SOURCES", " ", "=">>, <<"C_SOURCES", " ", "=", " ", "\\">>}

\* a libraries assignment on one line, or continued with one token a line
LibrariesLine(written, tokens) ==
  <<written, " ", "=">> \o Concat([i \in 1..Len(tokens) |-> <<" ">> \o tokens[i]]) \o <<"\n">>
LibrariesLines(written, tokens) ==
  <<written, " ", "=", " ", "\\", "\n">>
    \o Concat([i \in 1..Len(tokens) |->
                 tokens[i] \o (IF i < Len(tokens) THEN <<" ", "\\">> ELSE <<>>) \o <<"\n">>])
LibraryTokens == {<<"-", "l", "b">>, <<"-", "l", "a">>, <<"a">>, <<"-", "L", "a">>}
LibrariesSpellings == {"libraries", "LIBRARIES"}
\* the tokens of the test 'getlibraries'
LibLTestTokens ==
  << <<"-", "l", "lib">>, <<"-", "l", "otherlib">>,
     <<"-", "l", "someotherotherLib">>, <<"-", "l", "stdc++">> >>

NoBuildFiles == sortFiles(<<>>)
NoExtract == extractMakefileInfo(<<>>)

(***************************************************************************)
(* The callers.  Every behaviour is one caller: it holds the arguments of   *)
(* one call (the initial state), makes the call, and reads what comes back. *)
(***************************************************************************)
InitFormatter ==
  /\ fn \in {"createStringList", "createSingleLineStringList"}
  /\ arr \in ArraysOf(FormatTokens, MaxLen)
  /\ prefix \in FormatPrefixes
  /\ input = <<>> /\ makeInfo = EmptyMakeInfo /\ list = <<>>

InitPrefix ==
  /\ fn = "createPrefixWhenNoneExists"
  /\ input \in PrefixTokens \cup {undefined}
  /\ prefix \in Prefixes
  /\ arr = <<>> /\ makeInfo = EmptyMakeInfo /\ list = <<>>

InitRemovePrefixes ==
  /\ fn = "removePrefixes"
  /\ arr \in ArraysOf(PrefixedTokens, MaxLen) \cup {PrefixedTestList}
  /\ prefix \in {<<"-", "l">>, <<"a">>}
  /\ input = <<>> /\ makeInfo = EmptyMakeInfo /\ list = <<>>

InitCustomRules ==
  /\ fn = "customMakefileRules"
  /\ \E rules \in {Absent} \cup {Present(r) : r \in ArraysOf(CustomRules, MaxLen)} :
       makeInfo = [EmptyMakeInfo EXCEPT !.customMakefileRules = rules]
  /\ arr = <<>> /\ prefix = <<>> /\ input = <<>> /\ list = <<>>

\* a promise: not created, pending, resolved with a value or rejected with one
NoPromise == [state |-> "none", value |-> <<>>]
Pending == [state |-> "pending", value |-> <<>>]
Resolved(v) == [state |-> "resolved", value |-> v]
Rejected(e) == [state |-> "rejected", value |-> e]

AsyncFunctions ==
  {"changeProgrammer", "changeProgrammerDialogue", "readOrCreateConfigFile", "scanForFiles"}

NothingPromised ==
  /\ promise = [f \in AsyncFunctions |-> "none"]
  /\ rejection = [f \in AsyncFunctions |-> <<>>]

\* no file of the workspace has been touched and nothing is shown
NothingRequested ==
  /\ readFile = NoPromise /\ writeFile = NoPromise
  /\ reads = <<>> /\ writes = <<>>
  /\ quickPick = NoPromise /\ messages = <<>>

NoOpenOCD ==
  /\ workspaceUri = FALSE /\ openocdCfg = [exists |-> FALSE, text |-> <<>>]
  /\ programmer = <<>> /\ config = [interface |-> <<>>, openocdTarget |-> <<>>]
  /\ NothingRequested

NothingScanned ==
  /\ filePromises = <<>> /\ statChecks = <<>> /\ nonGlobFiles = <<>> /\ allFiles = <<>>

NoScan ==
  /\ workspaceFolder = FALSE /\ includedFilesGlob = <<>>
  /\ NothingScanned

NothingReturned ==
  /\ pc = "call"
  /\ output = <<>> /\ result = <<>>
  /\ buildFiles = NoBuildFiles /\ extracted = NoExtract

\* the synchronous functions leave the asynchronous side alone
Synchronous == NothingPromised /\ NoOpenOCD /\ NoScan

Init ==
  /\ InitFormatter \/ InitPrefix \/ InitRemovePrefixes \/ InitCustomRules
  /\ NothingReturned
  /\ Synchronous

CreateStringList ==
  /\ fn = "createStringList" /\ pc = "call"
  /\ output' = createStringList(arr, prefix)
  /\ arr' = uniqSort(arr).arr
  /\ pc' = "return"
  /\ UNCHANGED <<fn, prefix, input, makeInfo, list, result, buildFiles, extracted,
               asyncVars, ocdVars, scanVars>>

CreateSingleLineStringList ==
  /\ fn = "createSingleLineStringList" /\ pc = "call"
  /\ output' = createSingleLineStringList(arr, prefix)
  /\ arr' = uniqSort(arr).arr
  /\ pc' = "return"
  /\ UNCHANGED <<fn, prefix, input, makeInfo, list, result, buildFiles, extracted,
               asyncVars, ocdVars, scanVars>>

CreatePrefixWhenNoneExists ==
  /\ fn = "createPrefixWhenNoneExists" /\ pc = "call"
  /\ output' = createPrefixWhenNoneExists(input, prefix)
  /\ pc' = "return"
  /\ UNCHANGED <<fn, arr, prefix, input, makeInfo, list, result, buildFiles, extracted,
               asyncVars, ocdVars, scanVars>>

\* the extractor's side of the pair: the prefixed token is stripped again
RemovePrefixOfPrefixed ==
  /\ fn = "createPrefixWhenNoneExists" /\ pc = "return"
  /\ arr' = <<output>>
  /\ result' = removePrefixes(<<output>>, prefix)
  /\ pc' = "stripped"
  /\ UNCHANGED <<fn, prefix, input, makeInfo, list, output, buildFiles, extracted,
               asyncVars, ocdVars, scanVars>>

RemovePrefixes ==
  /\ fn = "removePrefixes" /\ pc = "call"
  /\ result' = removePrefixes(arr, prefix)
  /\ pc' = "return"
  /\ UNCHANGED <<fn, arr, prefix, input, makeInfo, list, output, buildFiles, extracted,
               asyncVars, ocdVars, scanVars>>

CustomMakefileRules ==
  /\ fn = "customMakefileRules" /\ pc = "call"
  /\ output' = customMakefileRules(makeInfo)
  /\ pc' = "return"
  /\ UNCHANGED <<fn, arr, prefix, input, makeInfo, list, result, buildFiles, extracted,
               asyncVars, ocdVars, scanVars>>

Next ==
  \/ CreateStringList
  \/ CreateSingleLineStringList
  \/ CreatePrefixWhenNoneExists
  \/ RemovePrefixOfPrefixed
  \/ RemovePrefixes
  \/ CustomMakefileRules

Spec == Init /\ [][Next]_vars

(***************************************************************************)
(* The generator and the extractor on a whole MakeInfo.                     *)
(***************************************************************************)
InitMake ==
  /\ fn = "createMakefile"
  /\ makeInfo \in MakeInfos
  /\ arr = <<>> /\ prefix = <<>> /\ input = <<>> /\ list = <<>>
  /\ NothingReturned
  /\ Synchronous

CreateMakefile ==
  /\ fn = "createMakefile" /\ pc = "call"
  /\ output' = createMakefile(makeInfo)
  /\ makeInfo' = makeInfoAfterCreateMakefile(makeInfo)
  /\ pc' = "return"
  /\ UNCHANGED <<fn, arr, prefix, input, list, result, buildFiles, extracted,
               asyncVars, ocdVars, scanVars>>

ExtractMakefileInfo ==
  /\ fn = "createMakefile" /\ pc = "return"
  /\ extracted' = extractMakefileInfo(output)
  /\ pc' = "extracted"
  /\ UNCHANGED <<fn, arr, prefix, input, makeInfo, list, output, result, buildFiles,
               asyncVars, ocdVars, scanVars>>

NextMake == CreateMakefile \/ ExtractMakefileInfo

SpecMake == InitMake /\ [][NextMake]_vars

(***************************************************************************)
(* The classifier on a flat file list.                                      *)
(***************************************************************************)
InitSort ==
  /\ fn = "sortFiles"
  /\ list \in ArraysOf(FilePaths, MaxLen)
  /\ arr = <<>> /\ prefix = <<>> /\ input = <<>> /\ makeInfo = EmptyMakeInfo
  /\ NothingReturned
  /\ Synchronous

SortFiles ==
  /\ fn = "sortFiles" /\ pc = "call"
  /\ buildFiles' = sortFiles(list)
  /\ pc' = "return"
  /\ UNCHANGED <<fn, arr, prefix, input, makeInfo, list, output, result, extracted,
               asyncVars, ocdVars, scanVars>>

NextSort == SortFiles

SpecSort == InitSort /\ [][NextSort]_vars

(***************************************************************************)
(* The extraction rules on small Makefiles.  arr holds the entries the      *)
(* text was written from, list how it was written, prefix the name asked.   *)
(***************************************************************************)
InitExtractMultiLine ==
  /\ fn = "extractMultiLineInfo"
  /\ prefix \in {<<name>> : name \in SearchedNames}
  /\ \/ /\ arr \in ArraysOf(EntryLines, MaxLen)
        /\ \E written \in SourcesSpellings, op \in WrittenOperators, pad \in EntryPads :
             /\ list = << <<written>>, <<op>>, pad >>
             /\ input = FixtureMakefile(written, op, pad, arr)
     \/ /\ arr = <<>> /\ list = <<>>
        /\ input \in OddMakefiles
  /\ makeInfo = EmptyMakeInfo

InitExtractlibraries ==
  /\ fn = "extractlibraries"
  /\ prefix = <<"-", "l">>
  /\ arr \in ArraysOf(LibraryTokens, MaxLen) \cup {LibLTestTokens}
  /\ \E written \in LibrariesSpellings :
       /\ list = << <<written>> >>
       /\ input \in {LibrariesLine(written, arr), LibrariesLines(written, arr)}
  /\ makeInfo = EmptyMakeInfo

InitExtract ==
  /\ InitExtractMultiLine \/ InitExtractlibraries
  /\ NothingReturned
  /\ Synchronous

ExtractMultiLineInfo ==
  /\ fn = "extractMultiLineInfo" /\ pc = "call"
  /\ result' = extractMultiLineInfo(prefix[1], input)
  /\ pc' = "return"
  /\ UNCHANGED <<fn, arr, prefix, input, makeInfo, list, output, buildFiles, extracted,
               asyncVars, ocdVars, scanVars>>

Extractlibraries ==
  /\ fn = "extractlibraries" /\ pc = "call"
  /\ result' = extractlibraries(input)
  /\ pc' = "return"
  /\ UNCHANGED <<fn, arr, prefix, input, makeInfo, list, output, buildFiles, extracted,
               asyncVars, ocdVars, scanVars>>

NextExtract == ExtractMultiLineInfo \/ Extractlibraries

SpecExtract == InitExtract /\ [][NextExtract]_vars


(***************************************************************************)
(* openOCDConfig.ts: the openocd.cfg file of the workspace.                 *)
(*                                                                          *)
(* The text of openocd.cfg is cut as the regular expression of              *)
(* changeProgrammer reads it: source, [find, interface/ and .cfg are one    *)
(* element each, comment lines are kept whole, and the names of interface   *)
(* and target are character by character.                                   *)
(***************************************************************************)
\* create(config)
create(cfg) ==
  <<"#OpenOCD configuration file, generated by STM32 for VSCode", "\n",
    "\n",
    "# Programmer, can be changed to several interfaces", "\n",
    "# Standard will be the stlink interface as this is the standard for STM32 dev boards", "\n",
    "source", " ", "[find", " ", "interface/">> \o cfg.interface \o <<".cfg", "]", "\n",
    "\n",
    "# The target MCU. This should match your board", "\n",
    "source", " ", "[find", " ", "target/">> \o cfg.openocdTarget \o <<".cfg", "]", "\n">>

\* \s and [\w-_] of the regular expression, on the characters the texts use
WhiteSpace == {" ", "\t", "\n"}
WordCharacters ==
  {"a", "b", "c", "d", "e", "f", "g", "h", "i", "j", "k", "l", "m", "n", "o", "p", "q",
   "r", "s", "t", "u", "v", "w", "x", "y", "z", "0", "1", "2", "3", "4", "5", "6", "7",
   "8", "9", "_", "-"}

\* (?<=source\s*\[find\s+interface\/) holds in front of place p
lookBehind(text, p) ==
  /\ p >= 2 /\ text[p - 1] = "interface/"
  /\ \E q \in 1..(p - 3) :
       /\ text[q] = "[find"
       /\ \A k \in (q + 1)..(p - 2) : text[k] \in WhiteSpace
       /\ \E r \in 1..(q - 1) :
            /\ text[r] = "source"
            /\ \A k \in (r + 1)..(q - 1) : text[k] \in WhiteSpace

\* the length of the longest run of [\w-_] from place p
RECURSIVE wordRun(_, _)
wordRun(text, p) ==
  IF p <= Len(text) /\ text[p] \in WordCharacters THEN 1 + wordRun(text, p + 1) ELSE 0

\* the length of the match of [\w-_]+\.cfg at place p, 0 when there is none
matchAt(text, p) ==
  LET n == wordRun(text, p)
  IN  IF lookBehind(text, p) /\ n >= 1 /\ p + n <= Len(text) /\ text[p + n] = ".cfg"
      THEN n + 1 ELSE 0

\* configuration.replace(regexPattern, replacement) from place i on (flag g)
RECURSIVE replaceFrom(_, _, _)
replaceFrom(text, i, replacement) ==
  IF i > Len(text) THEN <<>>
  ELSE IF matchAt(text, i) > 0
       THEN replacement \o replaceFrom(text, i + matchAt(text, i), replacement)
  ELSE <<text[i]>> \o replaceFrom(text, i + 1, replacement)

\* configuration.replace(regexPattern, `${programmer}.cfg`)
replaceProgrammer(configuration, p) == replaceFrom(configuration, 1, p \o <<".cfg">>)

\* the errors of the file system and of read()
NoOpenWorkspace == <<"No open workspace">>
FileNotFound == <<"FileNotFound">>
Unavailable == <<"Unavailable">>
NoPermissions == <<"NoPermissions">>

\* read() up to its await: no workspace rejects, else readFile is requested
StartRead ==
  IF workspaceUri
  THEN readFile' = Pending /\ reads' = Append(reads, <<"openocd.cfg">>)
  ELSE readFile' = Rejected(NoOpenWorkspace) /\ reads' = reads

\* write(configuration) up to its return: no workspace resolves at once,
\* else writeFileInWorkspace is requested
StartWrite(configuration) ==
  IF workspaceUri
  THEN writeFile' = Pending /\ writes' = Append(writes, configuration)
  ELSE writeFile' = Resolved(<<>>) /\ writes' = writes

\* `if (programmer)`: undefined and '' are falsy
Truthy(p) == p # undefined /\ p # <<>>

(***************************************************************************)
(* The inputs of openOCDConfig.                                             *)
(***************************************************************************)
InterfaceNames == {<<"s", "t">>, <<"j", "-", "l">>, <<"f", "t", "/", "o">>}
TargetNames == {<<"h", "7", "x">>}
Configs == [interface : InterfaceNames, openocdTarget : TargetNames]
Programmers == {<<"s", "t">>, <<"c", "-", "d">>}
\* the list the quick pick offers (openOCDInterfaceFiles)
openOCDInterfaces == {<<"s", "t">>, <<"j", "-", "l">>}

\* files written by hand: no blank after source and a tab before interface/,
\* with the interface named twice; and a file that names no interface
HandWritten ==
  {<<"source", "[find", "\t", "interface/", "a", ".cfg", "]", "\n",
     "#", " ", "source", " ", "[find", " ", "interface/", "b", ".cfg", "]", "\n",
     "source", " ", "[find", " ", "interface/", "b", "_", "1", ".cfg", "]", "\n",
     "source", " ", "[find", " ", "target/", "h", "7", "x", ".cfg", "]", "\n">>,
   <<"# no interface", "\n">>}

Files ==
  {[exists |-> FALSE, text |-> <<>>]}
    \cup {[exists |-> TRUE, text |-> t] : t \in {create(c) : c \in Configs} \cup HandWritten}

(***************************************************************************)
(* The calls of openOCDConfig and the callbacks they leave behind.          *)
(***************************************************************************)
InitOpenOCD ==
  /\ fn \in {"changeProgrammer", "changeProgrammerDialogue", "readOrCreateConfigFile"}
  /\ workspaceUri \in BOOLEAN
  /\ openocdCfg \in Files
  /\ programmer \in Programmers \cup (IF fn = "changeProgrammerDialogue" THEN {undefined, <<>>} ELSE {})
  /\ config \in Configs
  /\ NothingRequested
  /\ NothingPromised
  /\ arr = <<>> /\ prefix = <<>> /\ input = <<>> /\ makeInfo = EmptyMakeInfo /\ list = <<>>
  /\ NothingReturned
  /\ NoScan

\* changeProgrammer(programmer): the promise is created and read() is called
ChangeProgrammer ==
  /\ fn = "changeProgrammer" /\ pc = "call"
  /\ promise' = [promise EXCEPT !["changeProgrammer"] = "pending"]
  /\ StartRead
  /\ pc' = "called"
  /\ UNCHANGED <<fn, arr, prefix, input, makeInfo, list, output, result, buildFiles, extracted,
                 rejection, workspaceUri, openocdCfg, programmer, config, writeFile, writes,
                 quickPick, messages, scanVars>>

\* vscode.workspace.fs.readFile settles: with the text of the file, or with
\* an error when the file is missing or cannot be read
ReadFileSettles ==
  /\ readFile.state = "pending"
  /\ \/ openocdCfg.exists /\ readFile' = Resolved(openocdCfg.text)
     \/ ~openocdCfg.exists /\ readFile' = Rejected(FileNotFound)
     \/ openocdCfg.exists /\ readFile' = Rejected(Unavailable)
  /\ UNCHANGED <<unitVars, asyncVars, workspaceUri, openocdCfg, programmer, config, writeFile,
                 reads, writes, quickPick, messages, scanVars>>

\* Helpers.writeFileInWorkspace settles: the file holds the text, or an error
WriteFileSettles ==
  /\ writeFile.state = "pending"
  /\ \/ /\ writeFile' = Resolved(<<>>)
        /\ openocdCfg' = [exists |-> TRUE, text |-> writes[Len(writes)]]
     \/ /\ writeFile' = Rejected(NoPermissions)
        /\ openocdCfg' = openocdCfg
  /\ UNCHANGED <<unitVars, asyncVars, workspaceUri, programmer, config, readFile,
                 reads, writes, quickPick, messages, scanVars>>

\* read().then((configuration) => ...): the programmer is replaced and written
ChangeProgrammerReadThen ==
  /\ promise["changeProgrammer"] = "pending"
  /\ readFile.state = "resolved" /\ writeFile.state = "none"
  /\ StartWrite(replaceProgrammer(readFile.value, programmer))
  /\ UNCHANGED <<unitVars, asyncVars, workspaceUri, openocdCfg, programmer, config, readFile,
                 reads, quickPick, messages, scanVars>>

\* read()...catch((error) => ...)
ChangeProgrammerReadCatch ==
  /\ promise["changeProgrammer"] = "pending"
  /\ readFile.state = "rejected"
  /\ messages' = Append(messages, "Something went wrong wen reading the openocd config file")
  /\ promise' = [promise EXCEPT !["changeProgrammer"] = "rejected"]
  /\ rejection' = [rejection EXCEPT !["changeProgrammer"] = readFile.value]
  /\ UNCHANGED <<unitVars, workspaceUri, openocdCfg, programmer, config, readFile, writeFile,
                 reads, writes, quickPick, scanVars>>

\* write(newConfig).then(() => resolve())
ChangeProgrammerWriteThen ==
  /\ promise["changeProgrammer"] = "pending"
  /\ writeFile.state = "resolved"
  /\ promise' = [promise EXCEPT !["changeProgrammer"] = "resolved"]
  /\ UNCHANGED <<unitVars, rejection, ocdVars, scanVars>>

\* write(newConfig)...catch((error) => ...)
ChangeProgrammerWriteCatch ==
  /\ promise["changeProgrammer"] = "pending"
  /\ writeFile.state = "rejected"
  /\ messages' = Append(messages, "Something went wrong when writing the new openocd configuration file")
  /\ promise' = [promise EXCEPT !["changeProgrammer"] = "rejected"]
  /\ rejection' = [rejection EXCEPT !["changeProgrammer"] = writeFile.value]
  /\ UNCHANGED <<unitVars, workspaceUri, openocdCfg, programmer, config, readFile, writeFile,
                 reads, writes, quickPick, scanVars>>

\* changeProgrammerDialogue(programmer): with a programmer changeProgrammer
\* is called, without one the quick pick is shown
ChangeProgrammerDialogue ==
  /\ fn = "changeProgrammerDialogue" /\ pc = "call"
  /\ pc' = "called"
  /\ IF Truthy(programmer)
     THEN /\ promise' = [promise EXCEPT !["changeProgrammerDialogue"] = "pending",
                                        !["changeProgrammer"] = "pending"]
          /\ StartRead
          /\ quickPick' = quickPick
     ELSE /\ promise' = [promise EXCEPT !["changeProgrammerDialogue"] = "pending"]
          /\ quickPick' = Pending
          /\ UNCHANGED <<readFile, reads>>
  /\ UNCHANGED <<fn, arr, prefix, input, makeInfo, list, output, result, buildFiles, extracted,
                 rejection, workspaceUri, openocdCfg, programmer, config, writeFile, writes,
                 messages, scanVars>>

\* showQuickPick(...).then((value) => ...): the pick is cancelled (value
\* undefined) or names a programmer
ShowQuickPickThen ==
  /\ quickPick.state = "pending"
  /\ \E value \in openOCDInterfaces \cup {undefined} :
       /\ quickPick' = Resolved(value)
       /\ IF value = undefined
          THEN /\ promise' = [promise EXCEPT !["changeProgrammerDialogue"] = "resolved"]
               /\ UNCHANGED <<programmer, readFile, reads>>
          ELSE /\ promise' = [promise EXCEPT !["changeProgrammer"] = "pending"]
               /\ programmer' = value
               /\ StartRead
  /\ UNCHANGED <<unitVars, rejection, workspaceUri, openocdCfg, config, writeFile, writes,
                 messages, scanVars>>

\* changeProgrammer(...).then(() => ...) of the dialogue; the dialogue
\* registers no handler for a rejection
DialogueChangeProgrammerThen ==
  /\ promise["changeProgrammerDialogue"] = "pending"
  /\ promise["changeProgrammer"] = "resolved"
  /\ messages' = Append(messages, "Successfully set programmer")
  /\ promise' = [promise EXCEPT !["changeProgrammerDialogue"] = "resolved"]
  /\ UNCHANGED <<unitVars, rejection, workspaceUri, openocdCfg, programmer, config, readFile,
                 writeFile, reads, writes, quickPick, scanVars>>

\* readOrCreateConfigFile(config) up to its first await
ReadOrCreateConfigFile ==
  /\ fn = "readOrCreateConfigFile" /\ pc = "call"
  /\ pc' = "called"
  /\ IF workspaceUri
     THEN /\ promise' = [promise EXCEPT !["readOrCreateConfigFile"] = "pending"]
          /\ StartRead
     ELSE /\ promise' = [promise EXCEPT !["readOrCreateConfigFile"] = "resolved"]
          /\ UNCHANGED <<readFile, reads>>
  /\ UNCHANGED <<fn, arr, prefix, input, makeInfo, list, output, result, buildFiles, extracted,
                 rejection, workspaceUri, openocdCfg, programmer, config, writeFile, writes,
                 quickPick, messages, scanVars>>

\* await read() returned: return
ReadOrCreateReadOk ==
  /\ promise["readOrCreateConfigFile"] = "pending"
  /\ readFile.state = "resolved"
  /\ promise' = [promise EXCEPT !["readOrCreateConfigFile"] = "resolved"]
  /\ UNCHANGED <<unitVars, rejection, ocdVars, scanVars>>

\* await read() threw, whatever the error: create(config) is written
ReadOrCreateReadFailed ==
  /\ promise["readOrCreateConfigFile"] = "pending"
  /\ readFile.state = "rejected" /\ writeFile.state = "none"
  /\ StartWrite(create(config))
  /\ UNCHANGED <<unitVars, asyncVars, workspaceUri, openocdCfg, programmer, config, readFile,
                 reads, quickPick, messages, scanVars>>

\* await write(configuration) returned
ReadOrCreateWriteOk ==
  /\ promise["readOrCreateConfigFile"] = "pending"
  /\ writeFile.state = "resolved"
  /\ promise' = [promise EXCEPT !["readOrCreateConfigFile"] = "resolved"]
  /\ UNCHANGED <<unitVars, rejection, ocdVars, scanVars>>

\* await write(configuration) threw: the error is shown and thrown on
ReadOrCreateWriteFailed ==
  /\ promise["readOrCreateConfigFile"] = "pending"
  /\ writeFile.state = "rejected"
  /\ messages' = Append(messages, "Something went wrong while creating the openocd configuration file")
  /\ promise' = [promise EXCEPT !["readOrCreateConfigFile"] = "rejected"]
  /\ rejection' = [rejection EXCEPT !["readOrCreateConfigFile"] = writeFile.value]
  /\ UNCHANGED <<unitVars, workspaceUri, openocdCfg, programmer, config, readFile, writeFile,
                 reads, writes, quickPick, scanVars>>

NextOpenOCD ==
  \/ ChangeProgrammer
  \/ ReadFileSettles
  \/ WriteFileSettles
  \/ ChangeProgrammerReadThen
  \/ ChangeProgrammerReadCatch
  \/ ChangeProgrammerWriteThen
  \/ ChangeProgrammerWriteCatch
  \/ ChangeProgrammerDialogue
  \/ ShowQuickPickThen
  \/ DialogueChangeProgrammerThen
  \/ ReadOrCreateConfigFile
  \/ ReadOrCreateReadOk
  \/ ReadOrCreateReadFailed
  \/ ReadOrCreateWriteOk
  \/ ReadOrCreateWriteFailed

\* every request to the file system and to the window is answered, and the
\* event loop runs every callback that is due
SpecOpenOCD == InitOpenOCD /\ [][NextOpenOCD]_vars /\ WF_vars(NextOpenOCD)


(***************************************************************************)
(* scanForFiles: the glob searches and the stat checks it starts, and the   *)
(* callbacks that complete them.                                            *)
(***************************************************************************)
\* Glob.hasMagic: the pattern holds *, ? or a bracket expression
hasMagic(filePath) ==
  \E i \in 1..Len(filePath) :
    \/ filePath[i] \in {"*", "?"}
    \/ filePath[i] = "[" /\ \E j \in (i + 1)..Len(filePath) : filePath[j] = "]"

\* _.flattenDeep of the arrays the globs returned; a string is a leaf
RECURSIVE flattenDeep(_)
flattenDeep(arrays) ==
  IF arrays = <<>> THEN <<>> ELSE Head(arrays) \o flattenDeep(Tail(arrays))

\* returnedFiles.concat(nonGlobFiles): the strings are appended one by one
concat(returnedFiles, strings) ==
  returnedFiles \o [i \in 1..Len(strings) |-> <<strings[i]>>]

\* the workspace that is scanned: a.c and b.c, a directory d1, and a file
\* whose name is a[1].c
StarC == <<"*", ".", "c">>
AC == <<"a", ".", "c">>
BC == <<"b", ".", "c">>
ABracketC == <<"a", "[", "1", "]", ".", "c">>
DQuestion == <<"d", "?">>
GlobPatterns == {StarC, AC, ABracketC, DQuestion}

\* what Glob finds for a pattern in the workspace
GlobMatches(glob) ==
  CASE glob = StarC -> <<AC, BC>>
    [] glob = AC -> <<AC>>
    [] glob = DQuestion -> <<<<"d", "1">>>>
    [] OTHER -> <<>>

\* what fs.stat finds at the path spelled like the entry
FileTypeOf(filePath) ==
  CASE filePath = AC -> "File"
    [] filePath = ABracketC -> "File"
    [] OTHER -> "FileNotFound"

GlobError == <<"EACCES">>

InitScan ==
  /\ fn = "scanForFiles"
  /\ workspaceFolder \in BOOLEAN
  /\ includedFilesGlob \in ArraysOf(GlobPatterns, MaxGlobs)
  /\ NothingScanned
  /\ NothingPromised
  /\ NoOpenOCD
  /\ arr = <<>> /\ prefix = <<>> /\ input = <<>> /\ makeInfo = EmptyMakeInfo /\ list = <<>>
  /\ NothingReturned

\* scanForFiles(includedFilesGlob) up to its await: without a workspace folder
\* it returns []; otherwise every glob search is started, and a stat check
\* for every entry that has magic
ScanForFiles ==
  /\ fn = "scanForFiles" /\ pc = "call"
  /\ IF ~workspaceFolder
     THEN /\ promise' = [promise EXCEPT !["scanForFiles"] = "resolved"]
          /\ pc' = "returned"
          /\ UNCHANGED <<filePromises, statChecks>>
     ELSE /\ promise' = [promise EXCEPT !["scanForFiles"] = "pending"]
          /\ pc' = "called"
          /\ filePromises' = [i \in 1..Len(includedFilesGlob) |-> Pending]
          /\ statChecks' = [i \in 1..Len(includedFilesGlob) |->
                              IF hasMagic(includedFilesGlob[i]) THEN "pending" ELSE "none"]
  /\ UNCHANGED <<fn, arr, prefix, input, makeInfo, list, output, result, buildFiles, extracted,
                 rejection, ocdVars, workspaceFolder, includedFilesGlob, nonGlobFiles, allFiles>>

\* the callback of Glob for one search: the files found, or an error
GlobCallback ==
  /\ \E i \in 1..Len(filePromises) :
       /\ filePromises[i].state = "pending"
       /\ \/ filePromises' = [filePromises EXCEPT ![i] = Resolved(GlobMatches(includedFilesGlob[i]))]
          \/ filePromises' = [filePromises EXCEPT ![i] = Rejected(GlobError)]
  /\ UNCHANGED <<unitVars, asyncVars, ocdVars, workspaceFolder, includedFilesGlob, statChecks,
                 nonGlobFiles, allFiles>>

\* the rest of the forEach callback of one entry, after its await of fs.stat:
\* a file is pushed, a directory and a failed stat are passed over
StatCallback ==
  /\ \E i \in 1..Len(statChecks) :
       /\ statChecks[i] = "pending"
       /\ statChecks' = [statChecks EXCEPT ![i] = "done"]
       /\ nonGlobFiles' = IF FileTypeOf(includedFilesGlob[i]) = "File"
                          THEN Append(nonGlobFiles, includedFilesGlob[i])
                          ELSE nonGlobFiles
  /\ UNCHANGED <<unitVars, asyncVars, ocdVars, workspaceFolder, includedFilesGlob, filePromises,
                 allFiles>>

\* await Promise.all(filePromises) returned: every search has resolved
ScanForFilesReturns ==
  /\ fn = "scanForFiles" /\ pc = "called"
  /\ \A i \in 1..Len(filePromises) : filePromises[i].state = "resolved"
  /\ allFiles' = flattenDeep(concat([i \in 1..Len(filePromises) |-> filePromises[i].value],
                                    nonGlobFiles))
  /\ promise' = [promise EXCEPT !["scanForFiles"] = "resolved"]
  /\ pc' = "returned"
  /\ UNCHANGED <<fn, arr, prefix, input, makeInfo, list, output, result, buildFiles, extracted,
                 rejection, ocdVars, workspaceFolder, includedFilesGlob, filePromises, statChecks,
                 nonGlobFiles>>

\* await Promise.all(filePromises) threw: a search has failed
ScanForFilesThrows ==
  /\ fn = "scanForFiles" /\ pc = "called"
  /\ \E i \in 1..Len(filePromises) :
       /\ filePromises[i].state = "rejected"
       /\ rejection' = [rejection EXCEPT !["scanForFiles"] = filePromises[i].value]
  /\ promise' = [promise EXCEPT !["scanForFiles"] = "rejected"]
  /\ pc' = "returned"
  /\ UNCHANGED <<fn, arr, prefix, input, makeInfo, list, output, result, buildFiles, extracted,
                 ocdVars, scanVars>>

NextScan ==
  \/ ScanForFiles
  \/ GlobCallback
  \/ StatCallback
  \/ ScanForFilesReturns
  \/ ScanForFilesThrows

SpecScan == InitScan /\ [][NextScan]_vars


(***************************************************************************)
(* Helpers of the properties.                                               *)
(***************************************************************************)
\* a list holding every element of the set S once, in some order
Enumeration(S) == CHOOSE e \in [1..Cardinality(S) -> S] : Range(e) = S

\* strictly ascending in code-unit order: sorted and free of repeats
StrictlyAscending(a) == \A i \in 1..(Len(a) - 1) : StrLess(a[i], a[i + 1])

\* the line createStringList is to write for the k-th of n entries
ExpectedLine(p, entry, k, n) ==
  p \o entry \o (IF k < n THEN <<" ", "\\", "\n">> ELSE <<"\n">>)

Returned(f) == fn = f /\ pc # "call"

(***************************************************************************)
(* C2.  createStringList(arr, prefix) writes one line per distinct entry of *)
(* arr, in ascending lexicographic order, each line prefix + entry; every   *)
(* line but the last ends with ' \' before its newline, the last with the   *)
(* newline alone; an empty arr gives the empty string.                      *)
(***************************************************************************)
C2_OneLinePerDistinctEntry ==
  Returned("createStringList") =>
    LET D == Range(arr)
        n == Cardinality(D)
    IN  /\ arr = <<>> => output = <<>>
        /\ \E e \in [1..n -> D] :
             /\ Range(e) = D
             /\ StrictlyAscending(e)
             /\ output = Concat([k \in 1..n |-> ExpectedLine(prefix, e[k], k, n)])

C2_Witness ==
  /\ Returned("createStringList")
  /\ arr = << <<"b">>, <<"a", "b">>, <<"b">> >>
  /\ prefix = <<"-", "D">>
  /\ output = <<"-", "D", "a", "b", " ", "\\", "\n", "-", "D", "b", "\n">>

(***************************************************************************)
(* C7.  createPrefixWhenNoneExists(x, p) returns '' when x is empty or      *)
(* absent, x unchanged when x holds p anywhere, and otherwise p followed by *)
(* x (p added once); applied again to its own result with the same prefix   *)
(* it returns that result.                                                  *)
(***************************************************************************)
\* p occurs in x: x = u p v for some u and v
OccursIn(p, x) ==
  \E i \in 1..(Len(x) + 1) : \E j \in (i - 1)..Len(x) : SubSeq(x, i, j) = p

C7_ConditionalPrefix ==
  Returned("createPrefixWhenNoneExists") =>
    /\ (input = undefined \/ input = <<>>) => output = <<>>
    /\ (input # undefined /\ input # <<>> /\ OccursIn(prefix, input)) => output = input
    /\ (input # undefined /\ input # <<>> /\ ~OccursIn(prefix, input)) =>
         /\ Len(output) = Len(prefix) + Len(input)
         /\ SubSeq(output, 1, Len(prefix)) = prefix
         /\ SubSeq(output, Len(prefix) + 1, Len(output)) = input
    /\ createPrefixWhenNoneExists(output, prefix) = output

\* a token that holds the prefix in its middle came back as it was
C7_Witness ==
  /\ Returned("createPrefixWhenNoneExists")
  /\ prefix = <<"-", "l">>
  /\ input = <<"a", "-", "l">>
  /\ output = <<"a", "-", "l">>

(***************************************************************************)
(* C8.  Prefix stripping undoes conditional prefixing for the library,      *)
(* include and define families: for a bare token t (one that does not       *)
(* itself begin with the prefix) and p in {-l, -I, -D}, stripping p from    *)
(* the conditionally prefixed form of t gives back t.                       *)
(***************************************************************************)
Bare(t, p) == t # undefined /\ (Len(t) < Len(p) \/ SubSeq(t, 1, Len(p)) # p)

C8_StripUndoesPrefix ==
  (fn = "createPrefixWhenNoneExists" /\ pc = "stripped"
     /\ prefix \in FlagPrefixes /\ Bare(input, prefix))
    => result = <<input>>

\* a bare token got its prefix and lost it again
C8_Witness ==
  /\ fn = "createPrefixWhenNoneExists" /\ pc = "stripped"
  /\ prefix = <<"-", "D">>
  /\ input = <<"a", "D">>
  /\ output = <<"-", "D", "a", "D">>
  /\ result = << <<"a", "D">> >>

(***************************************************************************)
(* C9.  removePrefixes(list, prefix) returns a list of the same length and  *)
(* order; an entry that starts with the prefix loses exactly that one       *)
(* leading occurrence (later occurrences and the blanks of the rest stay),  *)
(* any other entry is returned as it is.                                    *)
(***************************************************************************)
C9_OneLeadingPrefixRemoved ==
  Returned("removePrefixes") =>
    /\ Len(result) = Len(arr)
    /\ \A i \in 1..Len(arr) :
         LET lead == Len(arr[i]) >= Len(prefix) /\ SubSeq(arr[i], 1, Len(prefix)) = prefix
         IN  /\ lead => prefix \o result[i] = arr[i]
             /\ ~lead => result[i] = arr[i]
    /\ (arr = PrefixedTestList /\ prefix = <<"-", "l">>) => result = UnPrefixedTestList

\* the list of the test: a later -l and a leading blank are kept
C9_Witness ==
  /\ Returned("removePrefixes")
  /\ arr = PrefixedTestList
  /\ prefix = <<"-", "l">>
  /\ result[2] = <<"e", "n", "t", "r", "y", "_", "t", "w", "o", "-", "l">>
  /\ result[3][1] = " "

(***************************************************************************)
(* C10.  customMakefileRules renders one block per rule in input order: a   *)
(* comment banner with the command name, the target line                    *)
(* 'command: dependsOn' (nothing after the blank when dependsOn is          *)
(* omitted) and one recipe line, a tab followed by the rule body; blocks    *)
(* are separated by blank lines; an absent or empty rule list gives the     *)
(* empty string.  A line of blanks and tabs only counts as blank.           *)
(***************************************************************************)
BlankLine(line) == \A i \in 1..Len(line) : line[i] \in {" ", "\t"}

\* the lines of the text that are not blank, in text order
RECURSIVE SolidLinesFrom(_, _)
SolidLinesFrom(text, i) ==
  IF i > Len(text) THEN <<>>
  ELSE LET stops == {j \in i..Len(text) : text[j] = "\n"}
           stop == IF stops = {} THEN Len(text) + 1
                   ELSE CHOOSE j \in stops : \A k \in stops : j <= k
           line == SubSeq(text, i, stop - 1)
       IN  (IF BlankLine(line) THEN <<>> ELSE <<line>>) \o SolidLinesFrom(text, stop + 1)

\* the five lines of the block of one rule
ExpectedBlock(r) ==
  << <<Banner39>>,
     <<"# ">> \o r.command,
     <<Banner39>>,
     r.command \o <<":", " ">> \o (IF r.dependsOn = undefined THEN <<>> ELSE r.dependsOn),
     <<"\t">> \o r.rule >>

\* a blank line stands right before the text at place i
BlankLineBefore(text, i) ==
  \E a \in 0..(i - 2) :
    /\ a = 0 \/ text[a] = "\n"
    /\ text[i - 1] = "\n"
    /\ \A k \in (a + 1)..(i - 2) : text[k] \in {" ", "\t"}

C10_OneBlockPerRule ==
  Returned("customMakefileRules") =>
    LET rules == makeInfo.customMakefileRules.value
        solid == SolidLinesFrom(output, 1)
    IN  /\ (~makeInfo.customMakefileRules.defined \/ rules = <<>>) => output = <<>>
        /\ Len(solid) = 5 * Len(rules)
        /\ \A k \in 1..Len(rules) :
             SubSeq(solid, 5 * (k - 1) + 1, 5 * k) = ExpectedBlock(rules[k])
        /\ \A i \in 1..(Len(output) - 2) :
             (output[i] = Banner39 /\ output[i + 2] = "# ") => BlankLineBefore(output, i)

\* two rules with different commands, the first without dependsOn
C10_Witness ==
  /\ Returned("customMakefileRules")
  /\ makeInfo.customMakefileRules.defined
  /\ Len(makeInfo.customMakefileRules.value) = 2
  /\ makeInfo.customMakefileRules.value[1] = [command |-> <<"b">>, rule |-> <<"x">>, dependsOn |-> undefined]
  /\ makeInfo.customMakefileRules.value[2] = [command |-> <<"a">>, rule |-> <<"x">>, dependsOn |-> <<"d">>]
  /\ Len(output) > 0

(***************************************************************************)
(* C1.  createMakefile is a function of its MakeInfo alone, two MakeInfo    *)
(* values that differ only in the order or the multiplicity of the entries  *)
(* of their file groups and definition groups give the same text, and the   *)
(* call leaves the arrays of its argument as they were.                     *)
(*                                                                          *)
(* Every MakeInfo is compared with its representative: the MakeInfo whose   *)
(* groups hold the same entries once each, in an order that depends on the  *)
(* set alone.  Two MakeInfo values that differ only in order or             *)
(* multiplicity have the same representative, hence the same text.          *)
(***************************************************************************)
Representative(info) ==
  [f \in DOMAIN info |->
     IF f \in FileGroups \cup DefinitionGroups THEN Enumeration(Range(info[f])) ELSE info[f]]

C1_TextOfRepresentative ==
  Returned("createMakefile") => output = createMakefile(Representative(makeInfo))

C1_OrderAndMultiplicityFree ==
  /\ []C1_TextOfRepresentative
  /\ [][(fn = "createMakefile" /\ pc = "call" /\ pc' = "return") => makeInfo' = makeInfo]_vars

\* a MakeInfo with repeated entries out of order has been rendered
C1_Witness ==
  /\ Returned("createMakefile")
  /\ makeInfo.cSources = << <<"b", ".", "c">>, <<"a", ".", "c">>, <<"b", ".", "c">> >>
  /\ makeInfo.cDefs = << <<"B", "-", "D">>, <<"B", "-", "D">> >>
  /\ Representative(makeInfo) # makeInfo

(***************************************************************************)
(* C3.  The flag sequences cFlags, cxxFlags, assemblyFlags and ldFlags are  *)
(* rendered space-joined in insertion order, neither deduplicated nor       *)
(* sorted: the tokens of the ADDITIONAL_C_FLAGS / ADDITIONAL_CXX_FLAGS /    *)
(* ADDITIONAL_AS_FLAGS / ADDITIONAL_LINKER_FLAGS line are the sequence.     *)
(***************************************************************************)
FlagVariable ==
  [f \in FlagSequences |->
     CASE f = "cFlags" -> "ADDITIONAL_C_FLAGS"
       [] f = "cxxFlags" -> "ADDITIONAL_CXX_FLAGS"
       [] f = "assemblyFlags" -> "ADDITIONAL_AS_FLAGS"
       [] f = "ldFlags" -> "ADDITIONAL_LINKER_FLAGS"]

\* the blank-separated tokens that follow the assignment operator on the
\* line of the text that starts with the variable
TokensOfLine(text, variable) ==
  LET at == CHOOSE i \in 1..Len(text) :
              text[i] = variable /\ (i = 1 \/ text[i - 1] = "\n")
      stops == {j \in at..Len(text) : text[j] = "\n"}
      stop == CHOOSE j \in stops : \A k \in stops : j <= k
  IN  tokensOf(SubSeq(text, at + 3, stop - 1), 1, <<>>)

C3_FlagsInInsertionOrder ==
  Returned("createMakefile") =>
    \A f \in FlagSequences : TokensOfLine(output, FlagVariable[f]) = makeInfo[f]

PatternRuleExtensions(text) ==
  LET rules == {x \in 1..(Len(text) - 4) :
                  /\ text[x] = "$(RELEASE_DIRECTORY)/%.o:"
                  /\ text[x + 1] = " " /\ text[x + 2] = "%" /\ text[x + 3] = "."}
      endOf(x) == CHOOSE y \in (x + 4)..Len(text) :
                    text[y] = " " /\ \A k \in (x + 4)..(y - 1) : text[k] # " "
  IN  {SubSeq(text, x + 4, endOf(x) - 1) : x \in rules}

SourceBuckets == {"cSources", "cxxSources", "assemblySources"}
ListedSources(info) == Range(info.cSources) \cup Range(info.cxxSources) \cup Range(info.asmSources)

\* the object lists are built with $(RELEASE_DIRECTORY)/ in front, and
\* RELEASE_DIRECTORY is set in both branches of ifeq ($(DEBUG),1)
ObjectsUnderReleaseDirectory(text) ==
  /\ \A i \in 1..Len(text) :
       (text[i] = "OBJECTS" /\ text[i - 1] = "\n") =>
         (text[i + 4] = "$(addprefix" /\ text[i + 6] = "$(RELEASE_DIRECTORY)/,$(addsuffix")
  /\ \E i, j \in 1..Len(text) :
       /\ text[i] = "ifeq" /\ text[i + 2] = "($(DEBUG),1)"
       /\ i < j /\ text[j] = "else"
       /\ \E k \in i..j : text[k] = "RELEASE_DIRECTORY" /\ text[k + 4] = "$(BUILD_DIRECTORY)/debug"
       /\ \E k \in j..Len(text) : text[k] = "RELEASE_DIRECTORY" /\ text[k + 4] = "$(BUILD_DIRECTORY)/release"

C5_EverySourceHasARule ==
  Returned("createMakefile") =>
    /\ \A file \in ListedSources(makeInfo) :
         bucketOf(file) \in SourceBuckets =>
           lastDotSegment(file) \in PatternRuleExtensions(output)
    /\ ObjectsUnderReleaseDirectory(output)

(***************************************************************************)
(* C6.  After sortFiles(list) returns, every bucket of the BuildFiles       *)
(* (cSources, cxxSources, assemblySources, libraryDirectories) is free of   *)
(* duplicates and in ascending order, also for a list with repeated paths   *)
(* and with several .a files of one directory.                              *)
(***************************************************************************)
C6_BucketsSortedAndUnique ==
  Returned("sortFiles") =>
    \A key \in Buckets : StrictlyAscending(buildFiles[key].elements)

(***************************************************************************)
(* C11.  When customMakefileRules of the MakeInfo is empty or absent, the   *)
(* text of createMakefile holds no banner block of a rule and no blank-line *)
(* block beyond the whitespace of the fixed template: between the fixed     *)
(* heading `# custom makefile rules` and the heading `# dependencies` there *)
(* are the template's three whitespace lines and nothing else.              *)
(***************************************************************************)
IndexOf(text, atom) == CHOOSE i \in 1..Len(text) : text[i] = atom

\* the text from the heading of the custom rules to the heading that follows it
CustomRulesSection(text) ==
  SubSeq(text, IndexOf(text, "# custom makefile rules"), IndexOf(text, "# dependencies"))

\* the section as the template alone writes it: an empty line, the line of
\* the interpolation, and the line of one tab
FixedCustomRulesSection ==
  <<"# custom makefile rules", "\n", Banner39, "\n",
    "\n",
    "\n",
    "\t", "\n",
    Banner39, "\n", "# dependencies">>

NoCustomRules(info) ==
  ~info.customMakefileRules.defined \/ info.customMakefileRules.value = <<>>

C11_NoRulesNoSection ==
  (Returned("createMakefile") /\ NoCustomRules(makeInfo)) =>
    /\ CustomRulesSection(output) = FixedCustomRulesSection
    /\ output = createMakefile([makeInfo EXCEPT !.customMakefileRules = Absent])

\* the empty list (not the absent one) has been rendered
C11_Witness ==
  /\ Returned("createMakefile")
  /\ makeInfo.customMakefileRules = Present(<<>>)
  /\ CustomRulesSection(output) = FixedCustomRulesSection

(***************************************************************************)
(* C12.  sortFiles places each path of its list in at most one bucket, by   *)
(* what follows the last dot of the path, compared without regard to case:  *)
(* cpp, cxx, cc to cxxSources, c to cSources, s to assemblySources, and for *)
(* a the directory of the path to libraryDirectories; headers (h, hpp) and  *)
(* every other extension go to no bucket.                                   *)
(***************************************************************************)
SameLetters(x, y) ==
  /\ Len(x) = Len(y)
  /\ \A i \in 1..Len(x) :
       \/ x[i] = y[i]
       \/ x[i] \in DOMAIN LowerCase /\ LowerCase[x[i]] = y[i]

\* the part of a path after its last dot
ExtensionOf(path) ==
  CHOOSE e \in {SubSeq(path, i, Len(path)) : i \in 1..(Len(path) + 1)} :
    /\ \A k \in 1..Len(e) : e[k] # "."
    /\ Len(e) < Len(path) => path[Len(path) - Len(e)] = "."

ExtensionsOf ==
  [key \in Buckets |->
     CASE key = "cxxSources" -> {<<"c", "p", "p">>, <<"c", "x", "x">>, <<"c", "c">>}
       [] key = "cSources" -> {<<"c">>}
       [] key = "assemblySources" -> {<<"s">>}
       [] key = "libraryDirectories" -> {<<"a">>}]

BelongsTo(path, key) == \E e \in ExtensionsOf[key] : SameLetters(ExtensionOf(path), e)

\* the directory part of the relative paths d/name and name
DirectoryOf(path) ==
  IF \E i \in 1..Len(path) : path[i] = "/"
  THEN SubSeq(path, 1, (CHOOSE i \in 1..Len(path) :
                          path[i] = "/" /\ \A j \in (i + 1)..Len(path) : path[j] # "/") - 1)
  ELSE <<".">>

PlacedAs(path, key) == IF key = "libraryDirectories" THEN DirectoryOf(path) ELSE path

C12_OneBucketByExtension ==
  Returned("sortFiles") =>
    /\ \A key \in Buckets :
         Range(buildFiles[key].elements) =
           {PlacedAs(list[i], key) : i \in {j \in 1..Len(list) : BelongsTo(list[j], key)}}
    /\ \A i \in 1..Len(list) : Cardinality({key \in Buckets : BelongsTo(list[i], key)}) <= 1
    /\ Len(buildFiles.cSources.elements) + Len(buildFiles.cxxSources.elements)
         + Len(buildFiles.assemblySources.elements) + Len(buildFiles.libraryDirectories.elements)
         <= Len(list)

\* an upper-case C source, a header and a library have been classified
C12_Witness ==
  /\ Returned("sortFiles")
  /\ list = << <<"a", ".", "C">>, <<"a", ".", "h", "p", "p">>, <<"d", "/", "a", ".", "a">> >>
  /\ buildFiles.cSources.elements = << <<"a", ".", "C">> >>
  /\ buildFiles.libraryDirectories.elements = << <<"d">> >>
  /\ buildFiles.cxxSources.elements = <<>>

(***************************************************************************)
(* C13.  Multi-line extraction is total: for every name and text it returns *)
(* a list; the list is empty when the name appears nowhere in the text or   *)
(* its assignment has no continuation lines; otherwise every continuation   *)
(* line up to the first one without the marker is one trimmed entry, in     *)
(* the order of the text and with repeats kept.                             *)
(***************************************************************************)
IsList(v) == DOMAIN v = 1..Len(v)

C13_MultiLineTotal ==
  Returned("extractMultiLineInfo") =>
    /\ IsList(result)
    /\ prefix[1] \in SourcesSpellings => result = arr
    /\ prefix[1] \in {"TARGET", "C_DEFS"} => result = <<>>

\* a repeated entry and an entry with a blank inside came back from lines
\* that were written with blanks in front, under the other spelling
C13_Witness ==
  /\ Returned("extractMultiLineInfo")
  /\ prefix = <<"c_sources">>
  /\ list = << <<"C_SOURCES">>, <<"+=">>, <<"\t", " ">> >>
  /\ result = << <<"b">>, <<"a", " ", "b">>, <<"b">> >>

(***************************************************************************)
(* C14.  Library-list extraction returns the whitespace-separated tokens of *)
(* the libraries value that start with -l, prefix kept, in their order in   *)
(* the text, neither sorted nor deduplicated; a value without such a token  *)
(* gives the empty list.                                                    *)
(***************************************************************************)
LinkFlags(tokens) ==
  SelectSeq(tokens, LAMBDA t : Len(t) >= 2 /\ t[1] = "-" /\ t[2] = "l")

C14_LibrariesInOrder ==
  Returned("extractlibraries") => result = LinkFlags(arr)

\* -lb before -la, and -lb twice, with a token that is no link flag between
C14_Witness ==
  /\ Returned("extractlibraries")
  /\ arr = << <<"-", "l", "b">>, <<"-", "L", "a">>, <<"-", "l", "a">> >>
  /\ result = << <<"-", "l", "b">>, <<"-", "l", "a">> >>
  /\ list = << <<"libraries">> >>

(***************************************************************************)
(* C15.  In the text of createMakefile the linker inputs of the MakeInfo    *)
(* (the -T linker script, the -l libraries, the -L library directories and  *)
(* the extra ldFlags) are on the command line of the recipe that links      *)
(* $(FINAL_TARGET_NAME).elf: the variable the recipe expands is assigned in *)
(* the text and includes, directly or through other variables,              *)
(* LINKER_SCRIPT, LIBRARIES, LIBRARY_DIRECTORIES and                        *)
(* ADDITIONAL_LINKER_FLAGS.                                                 *)
(***************************************************************************)
\* the variables of the link step, and how the text refers to each
Reference ==
  [LDFLAGS |-> "$(LDFLAGS)", LINKER_FLAGS |-> "$(LINKER_FLAGS)",
   LINKER_SCRIPT |-> "$(LINKER_SCRIPT)", LIBRARIES |-> "$(LIBRARIES)",
   LIBRARY_DIRECTORIES |-> "$(LIBRARY_DIRECTORIES)",
   ADDITIONAL_LINKER_FLAGS |-> "$(ADDITIONAL_LINKER_FLAGS)",
   MCU_FLAGS |-> "$(MCU_FLAGS)", LINKER_MAP_FLAGS |-> "$(LINKER_MAP_FLAGS)",
   LINKER_CLEAN_UP_FLAGS |-> "$(LINKER_CLEAN_UP_FLAGS)"]
LinkVariables == DOMAIN Reference
LinkerInputs == {"LINKER_SCRIPT", "LIBRARIES", "LIBRARY_DIRECTORIES", "ADDITIONAL_LINKER_FLAGS"}

\* where the text assigns the variable: at the start of a line, followed by
\* a blank and an assignment operator
AssignmentsOf(text, var) ==
  {i \in 1..(Len(text) - 2) :
     /\ text[i] = var /\ (i = 1 \/ text[i - 1] = "\n")
     /\ text[i + 1] = " " /\ text[i + 2] \in {"=", ":=", "?=", "+="}}

\* the end of the logical line that starts at i: the first line end that no
\* backslash (with or without a blank after it) precedes
LogicalLineEnd(text, i) ==
  CHOOSE j \in i..Len(text) :
    /\ text[j] = "\n" /\ text[j - 1] # "\\"
    /\ \A k \in i..(j - 1) : text[k] = "\n" => text[k - 1] = "\\"

\* the link variables the value of var refers to
RefersTo(text, var) ==
  {w \in LinkVariables :
     \E i \in AssignmentsOf(text, var) :
       \E k \in (i + 3)..LogicalLineEnd(text, i) : text[k] = Reference[w]}

\* the link variables the recipe of $(FINAL_TARGET_NAME).elf expands
LinkRecipeExpands(text) ==
  LET rule == CHOOSE i \in 1..Len(text) :
                text[i] = "$(FINAL_TARGET_NAME).elf:" /\ text[i - 1] = "\n"
      recipe == (CHOOSE j \in rule..Len(text) :
                   text[j] = "\n" /\ \A k \in rule..(j - 1) : text[k] # "\n") + 1
  IN  {w \in LinkVariables :
         /\ text[recipe] = "\t"
         /\ \E k \in recipe..LogicalLineEnd(text, recipe) : text[k] = Reference[w]}

RECURSIVE ExpandedFrom(_, _, _)
ExpandedFrom(text, names, n) ==
  IF n = 0 THEN names
  ELSE ExpandedFrom(text, names \cup UNION {RefersTo(text, v) : v \in names}, n - 1)

OnLinkCommandLine(text) == ExpandedFrom(text, LinkRecipeExpands(text), Cardinality(LinkVariables))

C15_LinkerInputsOnLinkRecipe ==
  Returned("createMakefile") =>
    /\ \A v \in LinkRecipeExpands(output) : AssignmentsOf(output, v) # {}
    /\ LinkerInputs \subseteq OnLinkCommandLine(output)

(***************************************************************************)
(* C16.  changeProgrammer(programmer) writes openocd.cfg at most once and   *)
(* only after the read of the current file has succeeded; the text written  *)
(* is the text read with the interface file name of each                    *)
(* `source [find interface/<name>.cfg]` replaced by programmer.cfg and all  *)
(* other text unchanged, so for a file made by create(c) it is create of c  *)
(* with interface = programmer; when the read fails nothing is written and  *)
(* the promise rejects with the error of the read.                          *)
(***************************************************************************)
\* the text with what stands between each interface/ and the .cfg after it
\* on the same line replaced by the name
RECURSIVE WithInterface(_, _, _)
WithInterface(text, i, name) ==
  IF i > Len(text) THEN <<>>
  ELSE LET ends == {j \in (i + 1)..Len(text) :
                      text[j] = ".cfg" /\ \A k \in i..j : text[k] # "\n"}
       IN  IF text[i] = "interface/" /\ ends # {}
           THEN <<"interface/">> \o name
                  \o WithInterface(text, CHOOSE j \in ends : \A k \in ends : j <= k, name)
           ELSE <<text[i]>> \o WithInterface(text, i + 1, name)

C16_OnlyTheProgrammerChanges ==
  promise["changeProgrammer"] # "none" =>
    /\ Len(writes) <= 1
    /\ writes # <<>> =>
         /\ readFile.state = "resolved"
         /\ writes[1] = WithInterface(readFile.value, 1, programmer)
         /\ \A c \in Configs :
              readFile.value = create(c) => writes[1] = create([c EXCEPT !.interface = programmer])
    /\ readFile.state = "rejected" =>
         /\ writes = <<>>
         /\ promise["changeProgrammer"] \in {"pending", "rejected"}
         /\ promise["changeProgrammer"] = "rejected" =>
              rejection["changeProgrammer"] = readFile.value

(***************************************************************************)
(* C17.  readOrCreateConfigFile never overwrites an existing openocd.cfg:   *)
(* it issues at most one write, only when openocd.cfg does not exist in the *)
(* workspace, the text written is create(config), and without an open       *)
(* workspace it neither reads nor writes.                                   *)
(***************************************************************************)
C17_AtMostOneWriteOfCreate ==
  fn = "readOrCreateConfigFile" =>
    /\ Len(writes) <= 1
    /\ writes # <<>> => writes[1] = create(config)
    /\ ~workspaceUri => reads = <<>> /\ writes = <<>>

C17_NeverOverwrites ==
  /\ []C17_AtMostOneWriteOfCreate
  /\ [][(fn = "readOrCreateConfigFile" /\ writes' # writes) => ~openocdCfg.exists]_vars

(***************************************************************************)
(* C18.  The promise changeProgrammerDialogue returns settles in every      *)
(* execution: with a programmer passed or picked, with the pick cancelled,  *)
(* with the read or the write inside changeProgrammer succeeding or failing.*)
(***************************************************************************)
C18_DialogueSettles ==
  (promise["changeProgrammerDialogue"] = "pending")
    ~> (promise["changeProgrammerDialogue"] \in {"resolved", "rejected"})

(***************************************************************************)
(* C19.  scanForFiles assembles its result only after every stat check it   *)
(* started has completed: each entry whose stat succeeds with type File is  *)
(* in the returned list, and the list is the same for every interleaving of *)
(* the glob and the stat callbacks.                                         *)
(***************************************************************************)
\* the entries a stat check is started for
Checked == {i \in 1..Len(includedFilesGlob) : hasMagic(includedFilesGlob[i])}

RECURSIVE FilesAmong(_, _)
FilesAmong(entries, i) ==
  IF i > Len(entries) THEN <<>>
  ELSE (IF hasMagic(entries[i]) /\ FileTypeOf(entries[i]) = "File" THEN <<entries[i]>> ELSE <<>>)
         \o FilesAmong(entries, i + 1)

\* what the call returns when nothing is left out: the files of the globs,
\* then the checked entries that are files
AllFilesOf(entries) ==
  flattenDeep([i \in 1..Len(entries) |-> GlobMatches(entries[i])]) \o FilesAmong(entries, 1)

C19_ScanWaitsForStat ==
  (workspaceFolder /\ promise["scanForFiles"] = "resolved") =>
    /\ \A i \in Checked : statChecks[i] = "done"
    /\ \A i \in Checked :
         FileTypeOf(includedFilesGlob[i]) = "File" => includedFilesGlob[i] \in Range(allFiles)
    /\ allFiles = AllFilesOf(includedFilesGlob)

=============================================================================
